---- MODULE Spec2Model ----
(***************************************************************************)
(* pysymnet: the SymNet protocol engine (pysymnet/protocol.py), its tasks  *)
(* (pysymnet/tasks.py) and the connection manager                          *)
(* (pysymnet/connection.py), as a state machine.                           *)
(*                                                                         *)
(* Spec       the engine and the connection manager: callers run _do_task  *)
(*            or connect, the event loop delivers received chunks,         *)
(*            timeouts, future callbacks and connection events.            *)
(* SpecRetry  Spec on a datagram connection, with as many attempts as    *)
(*            there are task ids.                                          *)
(* SpecApi    the public calls of SymNetConnection up to the commands they *)
(*            hand to _do_task (validation, the subscription table).       *)
(* SpecRanges _update_subscriptions as a function of the table's key set.  *)
(* SpecTask   the handle_line coroutines of the five kinds of task.         *)
(* SpecPublish publish and the subscribers it invokes.                     *)
(* SpecGather subscribe and unsubscribe to the end of their gather.        *)
(* SpecDsp    the callers of _do_task with the dummy DSP (dummy_dsp.py)    *)
(*            as the peer.                                                 *)
(* SpecData   data_received on a byte stream cut into chunks.              *)
(* SpecDisconnect  Spec with a caller of disconnect.                       *)
(* SpecVersion     get_version and its cache.                              *)
(* SpecConv   DecibelConverter (pysymnet/converters.py).                   *)
(* SpecControl     DSPControl.set_value (pysymnet/__init__.py).            *)
(*                                                                         *)
(* A queue entry (msg, task) is a task id; tMsg[t] is the msg it is paired *)
(* with.  A line is a sequence of characters: one-character strings, and   *)
(* for a character above U+00FF its code point written as in "U+2003".     *)
(***************************************************************************)
EXTENDS Integers, Sequences, FiniteSets, TLC

\* ------------------------------------------------------------------ bounds
NumCallers == 3
MaxTasks == 4
MaxEngines == 2
MaxChunk == 1
MaxUpdates == 1
MaxParams == 2
MaxRcn == 12
MaxLines == 3
MaxCount == 3
MaxStream == 4
MaxDb == 20
MaxConnects == 1
MaxStarted == 3
MaxCalls == 2
MaxPush == 1
MaxCmds == 2

Callers == 1..NumCallers
Tasks == 1..MaxTasks
Engines == 1..MaxEngines
CtlCalls == 1..MaxCalls

\* --------------------------------------------------------------- sequences
RECURSIVE SeqToSet(_)
SeqToSet(s) == IF s = <<>> THEN {} ELSE {Head(s)} \cup SeqToSet(Tail(s))

RECURSIVE Count(_, _)
Count(s, x) ==
    IF s = <<>> THEN 0
    ELSE (IF Head(s) = x THEN 1 ELSE 0) + Count(Tail(s), x)

Without(s, x) == SelectSeq(s, LAMBDA y : y # x)

\* ------------------------------------------------------------------- lines
L_ACK == <<"A", "C", "K">>
L_NAK == <<"N", "A", "K">>
L_nak == <<"n", "a", "k">>
L_42 == <<"4", "2">>
L_upd == <<"#", "5", "5", "=", "2", "0", "0">>
L_updm1 == <<"#", "5", "5", "=", "-", "1">>
L_7 == <<"7">>
L_9 == <<"9">>
L_m1 == <<"-", "1">>
L_gt == <<">">>

Lines == {L_ACK, L_NAK, L_nak, L_42, L_upd}

Chunks == UNION {[1..n -> Lines] : n \in 1..MaxChunk}

\* A character above U+00FF is written by its code point, as in "U+2003",
\* since a string of this module holds none.
Digits == <<"0", "1", "2", "3", "4", "5", "6", "7", "8", "9">>

\* The decimal digits of the other scripts (Unicode 14.0, that of Python
\* 3.11), which int() reads like the ASCII ones: a row holds the digits 0
\* to 9 of a script in order.
UnicodeDigits == <<
    <<"U+0660", "U+0661", "U+0662", "U+0663", "U+0664",
      "U+0665", "U+0666", "U+0667", "U+0668", "U+0669">>,
    <<"U+06F0", "U+06F1", "U+06F2", "U+06F3", "U+06F4",
      "U+06F5", "U+06F6", "U+06F7", "U+06F8", "U+06F9">>,
    <<"U+07C0", "U+07C1", "U+07C2", "U+07C3", "U+07C4",
      "U+07C5", "U+07C6", "U+07C7", "U+07C8", "U+07C9">>,
    <<"U+0966", "U+0967", "U+0968", "U+0969", "U+096A",
      "U+096B", "U+096C", "U+096D", "U+096E", "U+096F">>,
    <<"U+09E6", "U+09E7", "U+09E8", "U+09E9", "U+09EA",
      "U+09EB", "U+09EC", "U+09ED", "U+09EE", "U+09EF">>,
    <<"U+0A66", "U+0A67", "U+0A68", "U+0A69", "U+0A6A",
      "U+0A6B", "U+0A6C", "U+0A6D", "U+0A6E", "U+0A6F">>,
    <<"U+0AE6", "U+0AE7", "U+0AE8", "U+0AE9", "U+0AEA",
      "U+0AEB", "U+0AEC", "U+0AED", "U+0AEE", "U+0AEF">>,
    <<"U+0B66", "U+0B67", "U+0B68", "U+0B69", "U+0B6A",
      "U+0B6B", "U+0B6C", "U+0B6D", "U+0B6E", "U+0B6F">>,
    <<"U+0BE6", "U+0BE7", "U+0BE8", "U+0BE9", "U+0BEA",
      "U+0BEB", "U+0BEC", "U+0BED", "U+0BEE", "U+0BEF">>,
    <<"U+0C66", "U+0C67", "U+0C68", "U+0C69", "U+0C6A",
      "U+0C6B", "U+0C6C", "U+0C6D", "U+0C6E", "U+0C6F">>,
    <<"U+0CE6", "U+0CE7", "U+0CE8", "U+0CE9", "U+0CEA",
      "U+0CEB", "U+0CEC", "U+0CED", "U+0CEE", "U+0CEF">>,
    <<"U+0D66", "U+0D67", "U+0D68", "U+0D69", "U+0D6A",
      "U+0D6B", "U+0D6C", "U+0D6D", "U+0D6E", "U+0D6F">>,
    <<"U+0DE6", "U+0DE7", "U+0DE8", "U+0DE9", "U+0DEA",
      "U+0DEB", "U+0DEC", "U+0DED", "U+0DEE", "U+0DEF">>,
    <<"U+0E50", "U+0E51", "U+0E52", "U+0E53", "U+0E54",
      "U+0E55", "U+0E56", "U+0E57", "U+0E58", "U+0E59">>,
    <<"U+0ED0", "U+0ED1", "U+0ED2", "U+0ED3", "U+0ED4",
      "U+0ED5", "U+0ED6", "U+0ED7", "U+0ED8", "U+0ED9">>,
    <<"U+0F20", "U+0F21", "U+0F22", "U+0F23", "U+0F24",
      "U+0F25", "U+0F26", "U+0F27", "U+0F28", "U+0F29">>,
    <<"U+1040", "U+1041", "U+1042", "U+1043", "U+1044",
      "U+1045", "U+1046", "U+1047", "U+1048", "U+1049">>,
    <<"U+1090", "U+1091", "U+1092", "U+1093", "U+1094",
      "U+1095", "U+1096", "U+1097", "U+1098", "U+1099">>,
    <<"U+17E0", "U+17E1", "U+17E2", "U+17E3", "U+17E4",
      "U+17E5", "U+17E6", "U+17E7", "U+17E8", "U+17E9">>,
    <<"U+1810", "U+1811", "U+1812", "U+1813", "U+1814",
      "U+1815", "U+1816", "U+1817", "U+1818", "U+1819">>,
    <<"U+1946", "U+1947", "U+1948", "U+1949", "U+194A",
      "U+194B", "U+194C", "U+194D", "U+194E", "U+194F">>,
    <<"U+19D0", "U+19D1", "U+19D2", "U+19D3", "U+19D4",
      "U+19D5", "U+19D6", "U+19D7", "U+19D8", "U+19D9">>,
    <<"U+1A80", "U+1A81", "U+1A82", "U+1A83", "U+1A84",
      "U+1A85", "U+1A86", "U+1A87", "U+1A88", "U+1A89">>,
    <<"U+1A90", "U+1A91", "U+1A92", "U+1A93", "U+1A94",
      "U+1A95", "U+1A96", "U+1A97", "U+1A98", "U+1A99">>,
    <<"U+1B50", "U+1B51", "U+1B52", "U+1B53", "U+1B54",
      "U+1B55", "U+1B56", "U+1B57", "U+1B58", "U+1B59">>,
    <<"U+1BB0", "U+1BB1", "U+1BB2", "U+1BB3", "U+1BB4",
      "U+1BB5", "U+1BB6", "U+1BB7", "U+1BB8", "U+1BB9">>,
    <<"U+1C40", "U+1C41", "U+1C42", "U+1C43", "U+1C44",
      "U+1C45", "U+1C46", "U+1C47", "U+1C48", "U+1C49">>,
    <<"U+1C50", "U+1C51", "U+1C52", "U+1C53", "U+1C54",
      "U+1C55", "U+1C56", "U+1C57", "U+1C58", "U+1C59">>,
    <<"U+A620", "U+A621", "U+A622", "U+A623", "U+A624",
      "U+A625", "U+A626", "U+A627", "U+A628", "U+A629">>,
    <<"U+A8D0", "U+A8D1", "U+A8D2", "U+A8D3", "U+A8D4",
      "U+A8D5", "U+A8D6", "U+A8D7", "U+A8D8", "U+A8D9">>,
    <<"U+A900", "U+A901", "U+A902", "U+A903", "U+A904",
      "U+A905", "U+A906", "U+A907", "U+A908", "U+A909">>,
    <<"U+A9D0", "U+A9D1", "U+A9D2", "U+A9D3", "U+A9D4",
      "U+A9D5", "U+A9D6", "U+A9D7", "U+A9D8", "U+A9D9">>,
    <<"U+A9F0", "U+A9F1", "U+A9F2", "U+A9F3", "U+A9F4",
      "U+A9F5", "U+A9F6", "U+A9F7", "U+A9F8", "U+A9F9">>,
    <<"U+AA50", "U+AA51", "U+AA52", "U+AA53", "U+AA54",
      "U+AA55", "U+AA56", "U+AA57", "U+AA58", "U+AA59">>,
    <<"U+ABF0", "U+ABF1", "U+ABF2", "U+ABF3", "U+ABF4",
      "U+ABF5", "U+ABF6", "U+ABF7", "U+ABF8", "U+ABF9">>,
    <<"U+FF10", "U+FF11", "U+FF12", "U+FF13", "U+FF14",
      "U+FF15", "U+FF16", "U+FF17", "U+FF18", "U+FF19">>,
    <<"U+104A0", "U+104A1", "U+104A2", "U+104A3", "U+104A4",
      "U+104A5", "U+104A6", "U+104A7", "U+104A8", "U+104A9">>,
    <<"U+10D30", "U+10D31", "U+10D32", "U+10D33", "U+10D34",
      "U+10D35", "U+10D36", "U+10D37", "U+10D38", "U+10D39">>,
    <<"U+11066", "U+11067", "U+11068", "U+11069", "U+1106A",
      "U+1106B", "U+1106C", "U+1106D", "U+1106E", "U+1106F">>,
    <<"U+110F0", "U+110F1", "U+110F2", "U+110F3", "U+110F4",
      "U+110F5", "U+110F6", "U+110F7", "U+110F8", "U+110F9">>,
    <<"U+11136", "U+11137", "U+11138", "U+11139", "U+1113A",
      "U+1113B", "U+1113C", "U+1113D", "U+1113E", "U+1113F">>,
    <<"U+111D0", "U+111D1", "U+111D2", "U+111D3", "U+111D4",
      "U+111D5", "U+111D6", "U+111D7", "U+111D8", "U+111D9">>,
    <<"U+112F0", "U+112F1", "U+112F2", "U+112F3", "U+112F4",
      "U+112F5", "U+112F6", "U+112F7", "U+112F8", "U+112F9">>,
    <<"U+11450", "U+11451", "U+11452", "U+11453", "U+11454",
      "U+11455", "U+11456", "U+11457", "U+11458", "U+11459">>,
    <<"U+114D0", "U+114D1", "U+114D2", "U+114D3", "U+114D4",
      "U+114D5", "U+114D6", "U+114D7", "U+114D8", "U+114D9">>,
    <<"U+11650", "U+11651", "U+11652", "U+11653", "U+11654",
      "U+11655", "U+11656", "U+11657", "U+11658", "U+11659">>,
    <<"U+116C0", "U+116C1", "U+116C2", "U+116C3", "U+116C4",
      "U+116C5", "U+116C6", "U+116C7", "U+116C8", "U+116C9">>,
    <<"U+11730", "U+11731", "U+11732", "U+11733", "U+11734",
      "U+11735", "U+11736", "U+11737", "U+11738", "U+11739">>,
    <<"U+118E0", "U+118E1", "U+118E2", "U+118E3", "U+118E4",
      "U+118E5", "U+118E6", "U+118E7", "U+118E8", "U+118E9">>,
    <<"U+11950", "U+11951", "U+11952", "U+11953", "U+11954",
      "U+11955", "U+11956", "U+11957", "U+11958", "U+11959">>,
    <<"U+11C50", "U+11C51", "U+11C52", "U+11C53", "U+11C54",
      "U+11C55", "U+11C56", "U+11C57", "U+11C58", "U+11C59">>,
    <<"U+11D50", "U+11D51", "U+11D52", "U+11D53", "U+11D54",
      "U+11D55", "U+11D56", "U+11D57", "U+11D58", "U+11D59">>,
    <<"U+11DA0", "U+11DA1", "U+11DA2", "U+11DA3", "U+11DA4",
      "U+11DA5", "U+11DA6", "U+11DA7", "U+11DA8", "U+11DA9">>,
    <<"U+16A60", "U+16A61", "U+16A62", "U+16A63", "U+16A64",
      "U+16A65", "U+16A66", "U+16A67", "U+16A68", "U+16A69">>,
    <<"U+16AC0", "U+16AC1", "U+16AC2", "U+16AC3", "U+16AC4",
      "U+16AC5", "U+16AC6", "U+16AC7", "U+16AC8", "U+16AC9">>,
    <<"U+16B50", "U+16B51", "U+16B52", "U+16B53", "U+16B54",
      "U+16B55", "U+16B56", "U+16B57", "U+16B58", "U+16B59">>,
    <<"U+1D7CE", "U+1D7CF", "U+1D7D0", "U+1D7D1", "U+1D7D2",
      "U+1D7D3", "U+1D7D4", "U+1D7D5", "U+1D7D6", "U+1D7D7">>,
    <<"U+1D7D8", "U+1D7D9", "U+1D7DA", "U+1D7DB", "U+1D7DC",
      "U+1D7DD", "U+1D7DE", "U+1D7DF", "U+1D7E0", "U+1D7E1">>,
    <<"U+1D7E2", "U+1D7E3", "U+1D7E4", "U+1D7E5", "U+1D7E6",
      "U+1D7E7", "U+1D7E8", "U+1D7E9", "U+1D7EA", "U+1D7EB">>,
    <<"U+1D7EC", "U+1D7ED", "U+1D7EE", "U+1D7EF", "U+1D7F0",
      "U+1D7F1", "U+1D7F2", "U+1D7F3", "U+1D7F4", "U+1D7F5">>,
    <<"U+1D7F6", "U+1D7F7", "U+1D7F8", "U+1D7F9", "U+1D7FA",
      "U+1D7FB", "U+1D7FC", "U+1D7FD", "U+1D7FE", "U+1D7FF">>,
    <<"U+1E140", "U+1E141", "U+1E142", "U+1E143", "U+1E144",
      "U+1E145", "U+1E146", "U+1E147", "U+1E148", "U+1E149">>,
    <<"U+1E2F0", "U+1E2F1", "U+1E2F2", "U+1E2F3", "U+1E2F4",
      "U+1E2F5", "U+1E2F6", "U+1E2F7", "U+1E2F8", "U+1E2F9">>,
    <<"U+1E950", "U+1E951", "U+1E952", "U+1E953", "U+1E954",
      "U+1E955", "U+1E956", "U+1E957", "U+1E958", "U+1E959">>,
    <<"U+1FBF0", "U+1FBF1", "U+1FBF2", "U+1FBF3", "U+1FBF4",
      "U+1FBF5", "U+1FBF6", "U+1FBF7", "U+1FBF8", "U+1FBF9">>>>

IsDigit(c) ==
    \/ \E i \in 1..10 : Digits[i] = c
    \/ \E r \in 1..Len(UnicodeDigits), i \in 1..10 : UnicodeDigits[r][i] = c

DigitVal(c) ==
    (CHOOSE i \in 1..10 :
        \/ Digits[i] = c
        \/ \E r \in 1..Len(UnicodeDigits) : UnicodeDigits[r][i] = c) - 1

RECURSIVE DigitsVal(_)
DigitsVal(s) ==
    IF s = <<>> THEN 0
    ELSE 10 * DigitsVal(SubSeq(s, 1, Len(s) - 1)) + DigitVal(s[Len(s)])

\* The white space that int() strips from both ends of its text: space,
\* tab, line feed, form feed, carriage return, on the second line U+000B,
\* U+0085 and U+00A0, and the white space above U+00FF.  (U+001C to U+001F
\* are white space to str.isspace but not to int().)
WhiteSpace ==
    {" ", "\t", "\n", "\f", "\r",
     "", "", " ",
     "U+1680", "U+2000", "U+2001", "U+2002", "U+2003", "U+2004",
     "U+2005", "U+2006", "U+2007", "U+2008", "U+2009", "U+200A",
     "U+2028", "U+2029", "U+202F", "U+205F", "U+3000"}

RECURSIVE Strip(_)
Strip(s) ==
    IF s # <<>> /\ s[1] \in WhiteSpace THEN Strip(Tail(s))
    ELSE IF s # <<>> /\ s[Len(s)] \in WhiteSpace
    THEN Strip(SubSeq(s, 1, Len(s) - 1))
    ELSE s

\* Decimal digits, with single underscores allowed between two digits.
DigitGroups(s) ==
    /\ s # <<>>
    /\ IsDigit(s[1])
    /\ IsDigit(s[Len(s)])
    /\ \A i \in 1..Len(s) : IsDigit(s[i]) \/ (s[i] = "_" /\ s[i - 1] # "_")

\* The most digits that int() converts (sys.get_int_max_str_digits(), as
\* the interpreter starts).
MaxStrDigits == 4300

\* int(text): white space at both ends is stripped, then an optional sign
\* ('+' or '-') and the digits, no more than MaxStrDigits of them (the
\* underscores are not counted); ok = FALSE is the ValueError of every
\* other text.
ParseInt(s) ==
    LET t == Strip(s)
        signed == t # <<>> /\ t[1] \in {"+", "-"}
        body == IF signed THEN Tail(t) ELSE t
        digits == SelectSeq(body, IsDigit)
        v == DigitsVal(digits)
    IN IF DigitGroups(body) /\ Len(digits) <= MaxStrDigits
       THEN [ok |-> TRUE, val |-> IF signed /\ t[1] = "-" THEN 0 - v ELSE v]
       ELSE [ok |-> FALSE, val |-> 0]

UpperChar(c) ==
    CASE c = "a" -> "A"
      [] c = "c" -> "C"
      [] c = "k" -> "K"
      [] c = "n" -> "N"
      [] OTHER -> c

Upper(s) == [i \in 1..Len(s) |-> UpperChar(s[i])]

\* line.index("="): position of the first "=", 0 when there is none.
IndexOfEq(s) ==
    IF \E i \in 1..Len(s) : s[i] = "="
    THEN CHOOSE i \in 1..Len(s) : s[i] = "=" /\ \A j \in 1..(i - 1) : s[j] # "="
    ELSE 0

\* ---------------------------------------------------------------- commands
\* The calls a caller makes in Spec: get_param (SymNetValueTask, three
\* attempts) and set_param (SymNetBasicTask, the default single attempt).
DefaultRetryLimit == 1
GetRetryLimit == 3

Cmds == {"GS", "CSQ"}

\* The calls of SpecTask besides: get_ip ("RI", SymNetStringTask),
\* get_version ("VER" for '$v V', SymNetMultiStringTask) and get_param_block
\* ("GDB", SymNetMultiValueTask), three attempts each.
TaskCmds == {"CSQ", "GS", "RI", "VER", "GDB"}

CmdKind(cmd) ==
    CASE cmd = "GS" -> "value"
      [] cmd = "RI" -> "string"
      [] cmd = "VER" -> "multistring"
      [] cmd = "GDB" -> "multivalue"
      [] OTHER -> "basic"

CmdRetryLimit(cmd) == IF cmd = "CSQ" THEN DefaultRetryLimit ELSE GetRetryLimit

\* SymNetMultiValueTask.__init__: the defaults of start_control and
\* control_count.
DefaultStartControl == 0
DefaultControlCount == 1

VARIABLES
    \* tasks (SymNetTask and its future)
    nTasks, tMsg, tKind, tState, tErr, tVal, tRegs,
    \* a task's own fields (start_control, control_count, _strs, _values,
    \* _line_counter) and the lines its handle_line coroutine was run on
    tStart, tCount, tStrs, tValues, tLineCtr, tLines,
    \* engines (SymNetProtocol instances and their transports)
    \* (eClosing: the transport was closed by force and its connection_lost
    \* is due)
    nEng, eCur, eQueue, eWritten, eSubmitted, eOpen, eUpdCb, eImm, eClosing,
    \* event loop: scheduled _task_done and _conn_lost callbacks, timers,
    \* and what scheduled each _task_done callback
    sched, lostSched, waits, schedHow,
    \* SymNetConnection
    \* (mode: _mode, "tcp" or "udp"; "any" in a run that has not come to
    \* anything yet in which the two differ; timeout: _timeout, "positive"
    \* or "nonpositive", the two cases of wait_for)
    protocol, lockHolder, lockWaiters, nextConnectTasks, connEng, mode,
    timeout,
    subscriptions,
    \* callers of _do_task
    pc, cCmd, cTask, cCtr, cLastErr, cAttempts,
    \* what the update callback was invoked with
    updates,
    \* the public calls (SpecApi, SpecRanges, SpecPublish)
    issued, apiCall, apiOutcome, delivered,
    \* the gather of _update_subscriptions (SpecGather)
    gather,
    \* the dummy DSP (SpecDsp): its params, how many of each engine's
    \* commands it has read, the lines under way to each engine, the
    \* replies that the engines have processed, how many connections it
    \* has accepted, whether it still runs, how many of an engine's
    \* commands its transport sent (-1 while it still sends), the state of
    \* its socket for each engine, and the task of the attempt whose
    \* connection was under way when it ended (0 if none)
    dspVal, dspRead, dspOut, dspReplied, dspAccepted, dspUp, dspCut, dspSock,
    dspSyn,
    \* the byte stream of a transport (SpecData): the bytes under way, the
    \* bytes given to data_received, the lines given to _process_line
    dStream, dSent, dLines,
    \* the caller of disconnect (SpecDisconnect): where it is, the engine
    \* whose on_conn_lost it awaits, what it found in _protocol, and the
    \* engines whose transport it aborted
    dPc, dEng, dFound, dAborted,
    \* get_version (SpecVersion): the _version field, each caller's place
    \* in get_version, whether it called _do_task, what it returned, the
    \* number of "$v V" commands handed to _do_task, and the version
    \* information of the device
    version, vPc, vQueried, vRet, vSent, vDevice,
    \* the last call of the decibel converter (SpecConv): the method, its
    \* argument and what it returned or raised
    cvOp, cvIn, cvOut,
    \* a DSPControl (SpecControl): _curr_value, _last_set_failed, the value
    \* the device holds, the update lines under way to the control, and for
    \* each of the calls of set_value and get_value that overlap: the
    \* method, its place, val, old_value, the exception of set_param, how
    \* the last such call ended, and the value the device answered its
    \* get_param with; and the commands of set_param that the device has
    \* not read
    currValue, lastSetFailed, devValue, ctlPush, ctlOp, ctlPc, ctlVal, ctlOld,
    ctlErr, ctlEnd, ctlCmd, ctlGot

taskVars ==
    <<nTasks, tMsg, tKind, tState, tErr, tVal, tRegs, tStart, tCount, tStrs,
      tValues, tLineCtr, tLines>>
engVars ==
    <<nEng, eCur, eQueue, eWritten, eSubmitted, eOpen, eUpdCb, eImm, eClosing>>
loopVars == <<sched, lostSched, waits, schedHow>>
connVars ==
    <<protocol, lockHolder, lockWaiters, nextConnectTasks, connEng, mode,
      timeout>>
callerVars == <<pc, cCmd, cTask, cCtr, cLastErr, cAttempts>>
apiVars == <<subscriptions, issued, apiCall, apiOutcome, delivered>>

\* What only the specifications after Spec and SpecApi change.
dspVars ==
    <<dspVal, dspRead, dspOut, dspReplied, dspAccepted, dspUp, dspCut, dspSock,
      dspSyn>>

dataVars == <<dStream, dSent, dLines>>

discVars == <<dPc, dEng, dFound, dAborted>>

versionVars == <<version, vPc, vQueried, vRet, vSent, vDevice>>

convVars == <<cvOp, cvIn, cvOut>>

ctlVars ==
    <<currValue, lastSetFailed, devValue, ctlPush, ctlOp, ctlPc, ctlVal, ctlOld,
      ctlErr, ctlEnd, ctlCmd, ctlGot>>

otherVars ==
    <<gather, dspVars, dataVars, discVars, versionVars, convVars, ctlVars>>

vars ==
    <<taskVars, engVars, loopVars, connVars, callerVars, updates, apiVars,
      otherVars>>

\* ------------------------------------------------ the engine, on a bundle
\* The operators below thread one record through the calls of a handler:
\* cur/queue per engine, state/err/val/regs per task, the scheduled
\* callbacks, the update log and the exception that escaped ("none" if none).
\* written, submitted and imm are the history of an engine: the tasks whose
\* command it wrote, the tasks handed to queue_task or queue_task_immediate,
\* and the tasks handed to queue_task_immediate.
Bundle ==
    [cur |-> eCur, queue |-> eQueue, written |-> eWritten,
     submitted |-> eSubmitted, imm |-> eImm,
     kind |-> tKind, state |-> tState, err |-> tErr, val |-> tVal,
     regs |-> tRegs, sched |-> sched, upd |-> updates, exc |-> "none",
     tag |-> schedHow, src |-> "other",
     start |-> tStart, count |-> tCount, strs |-> tStrs, values |-> tValues,
     ctr |-> tLineCtr, lines |-> tLines]

Done(st, t) == st.state[t] # "pending"

\* call_soon of _task_done callbacks.  The event loop runs what was
\* scheduled in one iteration in the next one, ahead of that iteration's
\* reads and timers; tag tells what scheduled a callback: a line that
\* data_received processed ("read"), add_done_callback on a future that
\* was done already ("late"), or anything else that ended a future
\* ("other").
Schedule(st, cbs, by) ==
    [st EXCEPT !.sched = @ \cup cbs,
               !.tag = [x \in st.sched \cup cbs |->
                           IF x \in st.sched THEN st.tag[x] ELSE by]]

\* future.add_done_callback(engine._task_done): run soon if the future is
\* already done, else kept on the future.
AddDoneCallback(st, e, t) ==
    IF Done(st, t)
    THEN Schedule(st, {<<e, t>>}, "late")
    ELSE [st EXCEPT !.regs[t] = @ \cup {e}]

\* The future of t becomes terminal: its callbacks are scheduled.
Complete(st, t, how, err, val) ==
    [Schedule(st, {<<e, t>> : e \in st.regs[t]}, st.src)
        EXCEPT !.state[t] = how, !.err[t] = err, !.val[t] = val,
               !.regs[t] = {}]

\* future.set_result / set_exception: InvalidStateError on a done future.
SetResult(st, t, val) ==
    IF Done(st, t) THEN [st EXCEPT !.exc = "InvalidStateError"]
    ELSE Complete(st, t, "result", "none", val)

SetException(st, t, err) ==
    IF Done(st, t) THEN [st EXCEPT !.exc = "InvalidStateError"]
    ELSE Complete(st, t, "error", err, 0)

\* TryProcessTasks taking the newest entry of the queue instead of the oldest.
TryProcessTasks_Newest(st, e) ==
    IF st.cur[e] # 0 THEN st
    ELSE IF st.queue[e] = <<>> THEN st
    ELSE LET n == Len(st.queue[e])
             t == st.queue[e][n]
             s1 == [st EXCEPT !.queue[e] = SubSeq(@, 1, n - 1), !.cur[e] = t]
             s2 == AddDoneCallback(s1, e, t)
         IN [s2 EXCEPT !.written[e] = Append(@, t)]

TryProcessTasks(st, e) ==
    IF st.cur[e] # 0 THEN st
    ELSE IF st.queue[e] = <<>> THEN st
    ELSE LET t == Head(st.queue[e])
             s1 == [st EXCEPT !.queue[e] = Tail(@), !.cur[e] = t]
             s2 == AddDoneCallback(s1, e, t)
         IN [s2 EXCEPT !.written[e] = Append(@, t)]

TaskDone(st, e, t) ==
    IF st.state[t] = "cancelled" THEN st
    ELSE TryProcessTasks([st EXCEPT !.cur[e] = 0], e)

\* QueueTask writing the command at once, whatever is in flight.
QueueTask_Write(st, e, t) ==
    LET s1 == [st EXCEPT !.submitted[e] = Append(@, t), !.cur[e] = t]
        s2 == AddDoneCallback(s1, e, t)
    IN [s2 EXCEPT !.written[e] = Append(@, t)]

QueueTask(st, e, t) ==
    TryProcessTasks([st EXCEPT !.queue[e] = Append(@, t),
                               !.submitted[e] = Append(@, t)], e)

\* QueueTaskImmediate putting the task at the tail of the queue.
QueueTaskImmediate_Tail(st, e, t) ==
    TryProcessTasks([st EXCEPT !.queue[e] = Append(@, t),
                               !.submitted[e] = Append(@, t),
                               !.imm[e] = @ \cup {t}], e)

QueueTaskImmediate(st, e, t) ==
    TryProcessTasks([st EXCEPT !.queue[e] = <<t>> \o @,
                               !.submitted[e] = Append(@, t),
                               !.imm[e] = @ \cup {t}], e)

\* GetQueueTasks leaving out the in-flight pair.
GetQueueTasks_QueueOnly(st, e) == st.queue[e]

\* get_queue: the list returned, and the engine afterwards.
GetQueueTasks(st, e) ==
    IF st.cur[e] # 0 /\ ~Done(st, st.cur[e])
    THEN <<st.cur[e]>> \o st.queue[e]
    ELSE st.queue[e]

GetQueueAfter(st, e) ==
    IF st.cur[e] # 0 /\ ~Done(st, st.cur[e])
    THEN [st EXCEPT !.cur[e] = 0]
    ELSE st

\* dict[key] = val
MapPut(m, key, val) ==
    [k \in (DOMAIN m) \cup {key} |-> IF k = key THEN val ELSE m[k]]

\* The result a future was given is the task's own list or dict, not a
\* copy: what the task collects after its end shows in the result.
Shared(st, t) ==
    IF st.state[t] # "result" THEN st
    ELSE IF st.kind[t] = "multistring" THEN [st EXCEPT !.val[t] = st.strs[t]]
    ELSE IF st.kind[t] = "multivalue" THEN [st EXCEPT !.val[t] = st.values[t]]
    ELSE st

\* The body of the task's handle_line coroutine, were it run.  The
\* set_result() of SymNetBasicTask lacks its argument: TypeError.
HandleLineBody(st, t, line) ==
    CASE st.kind[t] = "basic" ->
            IF line = L_ACK
            THEN [st EXCEPT !.exc = "TypeError"]
            ELSE SetException(st, t, "Unexpected")
      [] st.kind[t] = "string" -> SetResult(st, t, line)
      [] st.kind[t] = "multistring" ->
            IF line = L_gt
            THEN SetResult(st, t, st.strs[t])
            ELSE Shared([st EXCEPT !.strs[t] = Append(@, line)], t)
      [] st.kind[t] = "value" ->
            IF ParseInt(line).ok
            THEN SetResult(st, t, ParseInt(line).val)
            ELSE SetException(st, t, "ValueError")
      [] st.kind[t] = "multivalue" ->
            IF ~ParseInt(line).ok THEN SetException(st, t, "ValueError")
            ELSE LET val == ParseInt(line).val
                     control == st.start[t] + st.ctr[t]
                     s1 == [st EXCEPT !.ctr[t] = @ + 1]
                     s2 == Shared([s1 EXCEPT !.values[t] =
                                                  MapPut(@, control, val)], t)
                 IN IF val = -1 THEN s1
                    ELSE IF s2.ctr[t] = s2.count[t]
                    THEN SetResult(s2, t, s2.values[t])
                    ELSE s2
      [] OTHER -> st

\* task.handle_line(line) as _process_line calls it: handle_line is a
\* coroutine function and the coroutine object it returns is dropped
\* without being awaited, so its body never runs.
HandleLine(st, t, line) == st

\* SymNetTask.expects_update_format: the class attribute, which no task
\* overrides.
ExpectsUpdateFormat(t) == FALSE

\* ProcessLine taking a line for a notification only while no task is in
\* flight.
ProcessLine_IdleOnly(st, e, upd, line) ==
    LET task == st.cur[e] IN
    IF line = <<>> THEN [st EXCEPT !.exc = "IndexError"]
    ELSE IF task = 0 /\ line[1] = "#"
    THEN LET pos == IndexOfEq(line)
             rcn == ParseInt(SubSeq(line, 2, pos - 1))
             val == ParseInt(SubSeq(line, pos + 1, Len(line)))
         IN IF pos = 0 \/ ~rcn.ok \/ ~val.ok
            THEN [st EXCEPT !.exc = "ValueError"]
            ELSE IF upd
            THEN [st EXCEPT !.upd = Append(@, <<rcn.val, val.val>>)]
            ELSE st
    ELSE IF task = 0 THEN [st EXCEPT !.exc = "AttributeError"]
    ELSE IF Upper(line) = L_NAK THEN SetException(st, task, "NAK")
    ELSE HandleLine(st, task, line)

ProcessLine(st, e, upd, line) ==
    LET task == st.cur[e] IN
    IF line = <<>> THEN [st EXCEPT !.exc = "IndexError"]
    ELSE IF (task = 0 \/ ~ExpectsUpdateFormat(task)) /\ line[1] = "#"
    THEN LET pos == IndexOfEq(line)
             rcn == ParseInt(SubSeq(line, 2, pos - 1))
             val == ParseInt(SubSeq(line, pos + 1, Len(line)))
         IN IF pos = 0 \/ ~rcn.ok \/ ~val.ok
            THEN [st EXCEPT !.exc = "ValueError"]
            ELSE IF upd
            THEN [st EXCEPT !.upd = Append(@, <<rcn.val, val.val>>)]
            ELSE st
    ELSE IF task = 0 THEN [st EXCEPT !.exc = "AttributeError"]
    ELSE IF Upper(line) = L_NAK THEN SetException(st, task, "NAK")
    ELSE HandleLine(st, task, line)

\* data_received: the lines of the chunk in order; an exception ends it.
RECURSIVE ProcessLines(_, _, _, _)
ProcessLines(st, e, upd, chunk) ==
    IF chunk = <<>> \/ st.exc # "none" THEN st
    ELSE ProcessLines(ProcessLine(st, e, upd, Head(chunk)), e, upd, Tail(chunk))

\* ------------------------------------------------------------------- Init
InitEngine ==
    /\ nTasks = 0
    /\ tMsg = [t \in Tasks |-> "none"]
    /\ tKind = [t \in Tasks |-> "none"]
    /\ tState = [t \in Tasks |-> "absent"]
    /\ tErr = [t \in Tasks |-> "none"]
    /\ tVal = [t \in Tasks |-> 0]
    /\ tRegs = [t \in Tasks |-> {}]
    /\ tStart = [t \in Tasks |-> DefaultStartControl]
    /\ tCount = [t \in Tasks |-> DefaultControlCount]
    /\ tStrs = [t \in Tasks |-> <<>>]
    /\ tValues = [t \in Tasks |-> <<>>]
    /\ tLineCtr = [t \in Tasks |-> 0]
    /\ tLines = [t \in Tasks |-> <<>>]
    /\ nEng = 0
    /\ eCur = [e \in Engines |-> 0]
    /\ eQueue = [e \in Engines |-> <<>>]
    /\ eWritten = [e \in Engines |-> <<>>]
    /\ eSubmitted = [e \in Engines |-> <<>>]
    /\ eOpen = [e \in Engines |-> FALSE]
    /\ eUpdCb = [e \in Engines |-> FALSE]
    /\ eImm = [e \in Engines |-> {}]
    /\ eClosing = [e \in Engines |-> FALSE]
    /\ sched = {}
    /\ schedHow = <<>>
    /\ lostSched = {}
    /\ waits = <<>>
    /\ protocol = 0
    /\ lockHolder = 0
    /\ lockWaiters = <<>>
    /\ nextConnectTasks = <<>>
    /\ connEng = 0
    /\ pc = [c \in Callers |-> "idle"]
    /\ cCmd = [c \in Callers |-> "none"]
    /\ cTask = [c \in Callers |-> 0]
    /\ cCtr = [c \in Callers |-> 0]
    /\ cLastErr = [c \in Callers |-> "none"]
    /\ cAttempts = [c \in Callers |-> <<>>]
    /\ updates = <<>>

\* Python's None, where the other values are tuples.
None == <<>>

NoGather == [children |-> <<>>, outcome |-> "none"]

\* The value the dummy DSP reports for an rcn that is not in its params.
DspUnset == -1

InitOther ==
    /\ gather = NoGather
    /\ dspVal = DspUnset
    /\ dspRead = [e \in Engines |-> 0]
    /\ dspOut = [e \in Engines |-> <<>>]
    /\ dspReplied = {}
    /\ dspAccepted = 0
    /\ dspUp = TRUE
    /\ dspCut = [e \in Engines |-> -1]
    /\ dspSock = [e \in Engines |-> "open"]
    /\ dspSyn = 0
    /\ dStream = <<>>
    /\ dSent = <<>>
    /\ dLines = <<>>
    /\ dPc = "idle"
    /\ dEng = 0
    /\ dFound = "none"
    /\ dAborted = {}
    /\ version = None
    /\ vPc = [c \in Callers |-> "idle"]
    /\ vQueried = [c \in Callers |-> FALSE]
    /\ vRet = [c \in Callers |-> None]
    /\ vSent = 0
    /\ vDevice = None
    /\ cvOp = "none"
    /\ cvIn = None
    /\ cvOut = None
    /\ currValue = None
    /\ lastSetFailed = FALSE
    /\ devValue = DspUnset
    /\ ctlPush = <<>>
    /\ ctlOp = [i \in CtlCalls |-> "none"]
    /\ ctlPc = [i \in CtlCalls |-> "idle"]
    /\ ctlVal = [i \in CtlCalls |-> None]
    /\ ctlOld = [i \in CtlCalls |-> None]
    /\ ctlErr = [i \in CtlCalls |-> "none"]
    /\ ctlEnd = [i \in CtlCalls |-> "none"]
    /\ ctlCmd = <<>>
    /\ ctlGot = [i \in CtlCalls |-> None]

InitCalls ==
    /\ issued = <<>>
    /\ apiCall = [op |-> "none"]
    /\ apiOutcome = "none"
    /\ delivered = <<>>
    /\ InitOther

\* A connection as __init__ leaves it, for each of the two cases of its
\* timeout.
Init ==
    /\ InitEngine
    /\ mode = "any"
    /\ timeout \in {"positive", "nonpositive"}
    /\ subscriptions = <<>>
    /\ InitCalls

\* A connection with a positive timeout (DEFAULT_TIMEOUT is one).
InitPositive == Init /\ timeout = "positive"

\* A datagram connection with a positive timeout.
InitDatagram ==
    /\ InitEngine
    /\ mode = "udp"
    /\ timeout = "positive"
    /\ subscriptions = <<>>
    /\ InitCalls

\* The bundle written back; w is the list of running wait_for timers, from
\* which the waits on tasks that are no longer pending drop out.
Commit(st, w) ==
    /\ eCur' = st.cur
    /\ eQueue' = st.queue
    /\ eWritten' = st.written
    /\ eSubmitted' = st.submitted
    /\ eImm' = st.imm
    /\ tKind' = st.kind
    /\ tState' = st.state
    /\ tErr' = st.err
    /\ tVal' = st.val
    /\ tRegs' = st.regs
    /\ tStart' = st.start
    /\ tCount' = st.count
    /\ tStrs' = st.strs
    /\ tValues' = st.values
    /\ tLineCtr' = st.ctr
    /\ tLines' = st.lines
    /\ sched' = st.sched
    /\ schedHow' = [x \in st.sched |-> st.tag[x]]
    /\ updates' = st.upd
    /\ waits' = SelectSeq(w, LAMBDA t : st.state[t] = "pending")

\* ------------------------------------------------------------- _do_task
\* The calls of connect() so far, and what the runs with connection losses
\* are bounded in: the tasks created and the calls of connect() together.
Connects == Cardinality({d \in Callers : cCmd[d] = "connect"})

Started == nTasks + Connects

\* One pass of the loop of _do_task up to its first suspension: a fresh
\* task, then _get_connection, then the submission and wait_for.  lh is the
\* holder of _protocol_lock when the pass starts, and the wait of
\* the pass before, if there was one, is over.  A caller that comes from
\* a failed connect has left its frame of _get_connection, and with it the
\* engine it was connecting (connEng).
Attempt(c, cmd, ctr, err, lh) ==
    LET t == nTasks + 1
        st0 == [Bundle EXCEPT !.state[t] = "pending", !.kind[t] = CmdKind(cmd)]
    IN
    /\ nTasks < MaxTasks
    /\ nTasks' = t
    /\ tMsg' = [tMsg EXCEPT ![t] = cmd]
    /\ cCmd' = [cCmd EXCEPT ![c] = cmd]
    /\ cTask' = [cTask EXCEPT ![c] = t]
    /\ cCtr' = [cCtr EXCEPT ![c] = ctr]
    /\ cLastErr' = [cLastErr EXCEPT ![c] = err]
    /\ cAttempts' = [cAttempts EXCEPT ![c] = Append(@, t)]
    /\ connEng' = IF lockHolder = c THEN 0 ELSE connEng
    /\ UNCHANGED <<nEng, eOpen, eClosing, eUpdCb, lostSched, protocol, nextConnectTasks,
                   apiVars, otherVars>>
    /\ IF lh = 0 /\ lockWaiters = <<>>
       THEN IF protocol # 0
            THEN /\ Commit(IF ctr = 0 THEN QueueTask(st0, protocol, t)
                                      ELSE QueueTaskImmediate(st0, protocol, t),
                           Append(Without(waits, cTask[c]), t))
                 /\ pc' = [pc EXCEPT ![c] = "waiting"]
                 /\ lockHolder' = lh
                 /\ UNCHANGED lockWaiters
            ELSE /\ Commit(st0, Without(waits, cTask[c]))
                 /\ pc' = [pc EXCEPT ![c] = "connecting"]
                 /\ lockHolder' = c
                 /\ UNCHANGED lockWaiters
       ELSE /\ Commit(st0, Without(waits, cTask[c]))
            /\ pc' = [pc EXCEPT ![c] = "lockwait"]
            /\ lockHolder' = lh
            /\ lockWaiters' = Append(lockWaiters, c)

\* Fail with a loop test that lets one more pass through.
Fail_OneMore(c, err, lh) ==
    IF cCmd[c] = "connect"
    THEN /\ pc' = [pc EXCEPT ![c] = "raised"]
         /\ cLastErr' = [cLastErr EXCEPT ![c] = err]
         /\ lockHolder' = lh
         /\ connEng' = IF lockHolder = c THEN 0 ELSE connEng
         /\ UNCHANGED <<taskVars, engVars, loopVars, protocol, lockWaiters,
                        nextConnectTasks, cCmd, cTask, cCtr, cAttempts,
                        updates, apiVars, otherVars>>
    ELSE IF cCtr[c] + 1 <= CmdRetryLimit(cCmd[c])
    THEN Attempt(c, cCmd[c], cCtr[c] + 1, err, lh)
    ELSE /\ pc' = [pc EXCEPT ![c] = "raised"]
         /\ cCtr' = [cCtr EXCEPT ![c] = @ + 1]
         /\ cLastErr' = [cLastErr EXCEPT ![c] = err]
         /\ lockHolder' = lh
         /\ connEng' = IF lockHolder = c THEN 0 ELSE connEng
         /\ waits' = Without(waits, cTask[c])
         /\ UNCHANGED <<taskVars, engVars, sched, lostSched, schedHow,
                        protocol, lockWaiters, nextConnectTasks, cCmd, cTask,
                        cAttempts, updates, apiVars, otherVars>>

\* An attempt failed with err: the next pass, or the raise after the loop.
\* connect() has no loop: the exception of _get_connection leaves it.
Fail(c, err, lh) ==
    IF cCmd[c] = "connect"
    THEN /\ pc' = [pc EXCEPT ![c] = "raised"]
         /\ cLastErr' = [cLastErr EXCEPT ![c] = err]
         /\ lockHolder' = lh
         /\ connEng' = IF lockHolder = c THEN 0 ELSE connEng
         /\ UNCHANGED <<taskVars, engVars, loopVars, protocol, lockWaiters,
                        nextConnectTasks, cCmd, cTask, cCtr, cAttempts,
                        updates, apiVars, otherVars>>
    ELSE IF cCtr[c] + 1 < CmdRetryLimit(cCmd[c])
    THEN Attempt(c, cCmd[c], cCtr[c] + 1, err, lh)
    ELSE /\ pc' = [pc EXCEPT ![c] = "raised"]
         /\ cCtr' = [cCtr EXCEPT ![c] = @ + 1]
         /\ cLastErr' = [cLastErr EXCEPT ![c] = err]
         /\ lockHolder' = lh
         /\ connEng' = IF lockHolder = c THEN 0 ELSE connEng
         /\ waits' = Without(waits, cTask[c])
         /\ UNCHANGED <<taskVars, engVars, sched, lostSched, schedHow,
                        protocol, lockWaiters, nextConnectTasks, cCmd, cTask,
                        cAttempts, updates, apiVars, otherVars>>

\* get_param / set_param called: _do_task starts.  Callers are numbered in
\* the order of their calls.
DoTask(c, cmd) ==
    /\ pc[c] = "idle"
    /\ \A d \in 1..(c - 1) : pc[d] # "idle"
    /\ Attempt(c, cmd, 0, "none", lockHolder)
    /\ UNCHANGED <<mode, timeout>>

\* connect() called: _get_connection without a task.  It returns the
\* recorded engine, or connects, or waits for _protocol_lock.
Connect(c) ==
    /\ pc[c] = "idle"
    /\ \A d \in 1..(c - 1) : pc[d] # "idle"
    /\ Connects < MaxConnects
    /\ cCmd' = [cCmd EXCEPT ![c] = "connect"]
    /\ UNCHANGED <<taskVars, engVars, loopVars, protocol, nextConnectTasks,
                   connEng, mode, timeout, cTask, cCtr, cLastErr, cAttempts, updates,
                   apiVars, otherVars>>
    /\ IF lockHolder = 0 /\ lockWaiters = <<>>
       THEN IF protocol # 0
            THEN /\ pc' = [pc EXCEPT ![c] = "returned"]
                 /\ UNCHANGED <<lockHolder, lockWaiters>>
            ELSE /\ pc' = [pc EXCEPT ![c] = "connecting"]
                 /\ lockHolder' = c
                 /\ UNCHANGED lockWaiters
       ELSE /\ pc' = [pc EXCEPT ![c] = "lockwait"]
            /\ lockWaiters' = Append(lockWaiters, c)
            /\ UNCHANGED lockHolder

\* AcquireLock not waiting for the holder of the lock to release it.
AcquireLock_NoWait(c) ==
    /\ pc[c] = "lockwait"
    /\ lockWaiters # <<>> /\ Head(lockWaiters) = c
    /\ lockWaiters' = Tail(lockWaiters)
    /\ UNCHANGED <<nTasks, tMsg, nEng, eOpen, eClosing, eUpdCb, lostSched,
                   protocol, nextConnectTasks, connEng, mode, timeout, cCmd, cTask,
                   cCtr, cLastErr, cAttempts, apiVars, otherVars>>
    /\ IF protocol # 0 /\ cTask[c] = 0
       THEN /\ Commit(Bundle, waits)
            /\ pc' = [pc EXCEPT ![c] = "returned"]
            /\ UNCHANGED lockHolder
       ELSE IF protocol # 0
       THEN /\ Commit(IF cCtr[c] = 0
                      THEN QueueTask(Bundle, protocol, cTask[c])
                      ELSE QueueTaskImmediate(Bundle, protocol, cTask[c]),
                      Append(waits, cTask[c]))
            /\ pc' = [pc EXCEPT ![c] = "waiting"]
            /\ UNCHANGED lockHolder
       ELSE /\ Commit(Bundle, waits)
            /\ pc' = [pc EXCEPT ![c] = "connecting"]
            /\ lockHolder' = c

\* A waiter of _protocol_lock gets the lock, first come first served; a
\* caller of connect() (no task) returns the recorded engine if there is
\* one.
AcquireLock(c) ==
    /\ pc[c] = "lockwait"
    /\ lockHolder = 0
    /\ lockWaiters # <<>> /\ Head(lockWaiters) = c
    /\ lockWaiters' = Tail(lockWaiters)
    /\ UNCHANGED <<nTasks, tMsg, nEng, eOpen, eClosing, eUpdCb, lostSched,
                   protocol, nextConnectTasks, connEng, mode, timeout, cCmd, cTask,
                   cCtr, cLastErr, cAttempts, apiVars, otherVars>>
    /\ IF protocol # 0 /\ cTask[c] = 0
       THEN /\ Commit(Bundle, waits)
            /\ pc' = [pc EXCEPT ![c] = "returned"]
            /\ UNCHANGED lockHolder
       ELSE IF protocol # 0
       THEN /\ Commit(IF cCtr[c] = 0
                      THEN QueueTask(Bundle, protocol, cTask[c])
                      ELSE QueueTaskImmediate(Bundle, protocol, cTask[c]),
                      Append(waits, cTask[c]))
            /\ pc' = [pc EXCEPT ![c] = "waiting"]
            /\ UNCHANGED lockHolder
       ELSE /\ Commit(Bundle, waits)
            /\ pc' = [pc EXCEPT ![c] = "connecting"]
            /\ lockHolder' = c

\* create_connection or create_datagram_endpoint succeeds: a new
\* SymNetProtocol, connection_made.  With a timeout that is not positive
\* wait_for cancels create_connection before it starts, so that only a
\* datagram endpoint is ever made.
ConnectOk(c) ==
    /\ pc[c] = "connecting"
    /\ nEng < MaxEngines
    /\ timeout = "nonpositive" => mode # "tcp"
    /\ mode' = IF timeout = "nonpositive" THEN "udp" ELSE mode
    /\ nEng' = nEng + 1
    /\ connEng' = nEng + 1
    /\ eOpen' = [eOpen EXCEPT ![nEng + 1] = TRUE]
    /\ pc' = [pc EXCEPT ![c] = "made"]
    /\ UNCHANGED <<taskVars, eCur, eQueue, eWritten, eSubmitted, eUpdCb, eImm,
                   eClosing, loopVars,
                   protocol, lockHolder, lockWaiters, nextConnectTasks,
                   timeout, cCmd, cTask, cCtr, cLastErr, cAttempts, updates, apiVars,
                   otherVars>>

\* ConnectFail leaving _protocol_lock held.
ConnectFail_KeepLock(c, err) ==
    /\ \/ pc[c] = "connecting"
       \/ /\ pc[c] = "made"
          /\ err = "TimeoutError"
          /\ ~eOpen[connEng]
          /\ connEng \notin lostSched
    /\ err = "TimeoutError" => mode # "udp"
    /\ (err = "OSError" /\ timeout = "nonpositive") => mode # "tcp"
    /\ mode' = IF err = "TimeoutError" THEN "tcp"
               ELSE IF timeout = "nonpositive" THEN "udp" ELSE mode
    /\ UNCHANGED timeout
    /\ Fail(c, err, c)

\* create_connection or create_datagram_endpoint raises, or wait_for gives
\* up on create_connection (only that call is under wait_for): the
\* exception leaves _get_connection (releasing the lock) and _do_task
\* records it.
\* With a timeout that is not positive wait_for gives up at once, before
\* create_connection starts: the stream connect raises TimeoutError and
\* nothing else.
\* wait_for can give up after connection_made ran (the timer is due in the
\* loop iteration in which the transport is created): the cancelled connect
\* closes the transport, connection_lost and _conn_lost run, and the caller
\* resumes with TimeoutError.
ConnectFail(c, err) ==
    /\ \/ pc[c] = "connecting"
       \/ /\ pc[c] = "made"
          /\ err = "TimeoutError"
          /\ ~eOpen[connEng]
          /\ connEng \notin lostSched
    /\ err = "TimeoutError" => mode # "udp"
    /\ (err = "OSError" /\ timeout = "nonpositive") => mode # "tcp"
    /\ mode' = IF err = "TimeoutError" THEN "tcp"
               ELSE IF timeout = "nonpositive" THEN "udp" ELSE mode
    /\ UNCHANGED timeout
    /\ Fail(c, err, 0)

RECURSIVE Requeue(_, _, _)
Requeue(st, e, ts) ==
    IF ts = <<>> THEN st
    ELSE Requeue(QueueTask(st, e, Head(ts)), e, Tail(ts))

\* _get_connection resumes after the connect: the held work is queued on
\* the new engine, the engine is recorded, the lock released; _do_task
\* then submits its own task and waits, and connect() returns.
GetConnectionDone(c) ==
    LET e == connEng
        st1 == Requeue(Bundle, e, nextConnectTasks)
        st2 == IF cTask[c] = 0 THEN st1
               ELSE IF cCtr[c] = 0 THEN QueueTask(st1, e, cTask[c])
               ELSE QueueTaskImmediate(st1, e, cTask[c])
    IN
    /\ pc[c] = "made"
    /\ eUpdCb' = [eUpdCb EXCEPT ![e] = TRUE]
    /\ nextConnectTasks' = <<>>
    /\ protocol' = e
    /\ lockHolder' = 0
    /\ connEng' = 0
    /\ Commit(st2, IF cTask[c] = 0 THEN waits ELSE Append(waits, cTask[c]))
    /\ pc' = [pc EXCEPT ![c] = IF cTask[c] = 0 THEN "returned" ELSE "waiting"]
    /\ UNCHANGED <<nTasks, tMsg, nEng, eOpen, eClosing, lostSched, lockWaiters,
                   mode, timeout, cCmd, cTask, cCtr, cLastErr, cAttempts, apiVars,
                   otherVars>>

\* wait_for(task, timeout) is over for the caller: the result is returned,
\* or the failure recorded.  The callbacks that the end of the task's
\* future scheduled run first; a _task_done that add_done_callback
\* scheduled later, on the done future, can still be due.
Resume(c) ==
    LET t == cTask[c] IN
    /\ pc[c] = "waiting"
    /\ timeout = "positive"
    /\ tState[t] # "pending"
    /\ ~\E e \in Engines : <<e, t>> \in sched /\ schedHow[<<e, t>>] # "late"
    /\ UNCHANGED <<mode, timeout>>
    /\ IF tState[t] = "result"
       THEN /\ pc' = [pc EXCEPT ![c] = "returned"]
            /\ UNCHANGED <<taskVars, engVars, loopVars, connVars, cCmd, cTask,
                           cCtr, cLastErr, cAttempts, updates, apiVars, otherVars>>
       ELSE Fail(c, IF tState[t] = "cancelled" THEN "TimeoutError"
                    ELSE tErr[t], lockHolder)

\* wait_for(task, timeout) with a timeout that is not positive: it wraps
\* the task in a Task of its own, cancels that before it starts and raises
\* TimeoutError, whatever has become of the task.  The task's future is
\* not cancelled: a task that is pending stays pending, and stays where it
\* is on its engine.
WaitForExpired(c) ==
    /\ pc[c] = "waiting"
    /\ timeout = "nonpositive"
    /\ UNCHANGED <<mode, timeout>>
    /\ Fail(c, "TimeoutError", lockHolder)

\* ------------------------------------------------------------ event loop
\* The timer of the oldest running wait_for fires (every wait uses the
\* connection's one timeout): the wait is cancelled, and with it the
\* task's future.
Timeout(t) ==
    /\ timeout = "positive"
    /\ waits # <<>> /\ Head(waits) = t
    /\ Commit(Complete(Bundle, t, "cancelled", "none", 0), Tail(waits))
    /\ UNCHANGED <<nTasks, tMsg, nEng, eOpen, eClosing, eUpdCb, lostSched, connVars,
                   callerVars, apiVars, otherVars>>

\* A scheduled _task_done callback runs.
RunTaskDone(e, t) ==
    /\ <<e, t>> \in sched
    /\ Commit(TaskDone([Bundle EXCEPT !.sched = @ \ {<<e, t>>}], e, t), waits)
    /\ UNCHANGED <<nTasks, tMsg, nEng, eOpen, eClosing, eUpdCb, lostSched, connVars,
                   callerVars, apiVars, otherVars>>

\* _mode after a call of data_received that exc left: the call showed the
\* mode if an exception left it.
ModeAfter(exc) ==
    IF exc = "none" \/ mode # "any" THEN {mode} ELSE {"tcp", "udp"}

\* The transport of e delivers a chunk to data_received.  The callbacks
\* that a chunk scheduled by ending a task run before the next read event
\* of the transport; a callback that something else scheduled can still be
\* due when the chunk is read.  An exception that leaves data_received is
\* a fatal error of a stream transport: it stops reading, it drops what is
\* written from then on, and its connection_lost is due.  A datagram
\* transport stays as it is after an exception of datagram_received.
DataReceived(e, chunk) ==
    /\ eOpen[e] /\ ~eClosing[e]
    /\ ~\E t \in Tasks : <<e, t>> \in sched /\ schedHow[<<e, t>>] = "read"
    /\ LET st == ProcessLines([Bundle EXCEPT !.src = "read"], e, eUpdCb[e],
                              chunk)
       IN
       /\ Len(st.upd) <= MaxUpdates
       /\ Commit(st, waits)
       /\ mode' \in ModeAfter(st.exc)
       /\ UNCHANGED timeout
       /\ eClosing' = [eClosing EXCEPT ![e] = st.exc # "none" /\ mode' = "tcp"]
    /\ UNCHANGED <<nTasks, tMsg, nEng, eOpen, eUpdCb, lostSched, protocol,
                   lockHolder, lockWaiters, nextConnectTasks, connEng,
                   callerVars, apiVars, otherVars>>

\* The transport of e closes (peer, error or abort): connection_lost sets
\* on_conn_lost, whose callback _conn_lost is scheduled.  A datagram
\* transport has no peer that closes it and keeps going after an OSError
\* (error_received): it closes by abort only.
TransportLost(e) ==
    /\ eOpen[e]
    /\ eClosing[e] \/ mode # "udp"
    /\ mode' = IF eClosing[e] THEN mode ELSE "tcp"
    /\ UNCHANGED timeout
    /\ eOpen' = [eOpen EXCEPT ![e] = FALSE]
    /\ eClosing' = [eClosing EXCEPT ![e] = FALSE]
    /\ lostSched' = lostSched \cup {e}
    /\ UNCHANGED <<taskVars, nEng, eCur, eQueue, eWritten, eSubmitted, eUpdCb,
                   eImm, sched, schedHow, waits, protocol, lockHolder,
                   lockWaiters, nextConnectTasks, connEng, callerVars, updates,
                   apiVars>>

ConnectionLost(e) == TransportLost(e) /\ UNCHANGED otherVars

\* ConnLost forgetting the held work when no engine is recorded.
ConnLost_DropHeld(e) ==
    /\ e \in lostSched
    /\ lostSched' = lostSched \ {e}
    /\ IF protocol # 0
       THEN /\ nextConnectTasks' = GetQueueTasks(Bundle, protocol)
            /\ Commit(GetQueueAfter(Bundle, protocol), waits)
       ELSE /\ nextConnectTasks' = <<>>
            /\ Commit(Bundle, waits)
    /\ protocol' = 0
    /\ UNCHANGED <<nTasks, tMsg, nEng, eOpen, eClosing, eUpdCb, lockHolder,
                   lockWaiters, connEng, mode, timeout, callerVars, apiVars, otherVars>>

\* _conn_lost runs for the closed transport of e.
ConnLost(e) ==
    /\ e \in lostSched
    /\ lostSched' = lostSched \ {e}
    /\ IF protocol # 0
       THEN /\ nextConnectTasks' = GetQueueTasks(Bundle, protocol)
            /\ Commit(GetQueueAfter(Bundle, protocol), waits)
       ELSE /\ UNCHANGED nextConnectTasks
            /\ Commit(Bundle, waits)
    /\ protocol' = 0
    /\ UNCHANGED <<nTasks, tMsg, nEng, eOpen, eClosing, eUpdCb, lockHolder,
                   lockWaiters, connEng, mode, timeout, callerVars, apiVars, otherVars>>

Next ==
    \/ \E c \in Callers, cmd \in Cmds : DoTask(c, cmd) /\ Started' <= MaxStarted
    \/ \E c \in Callers : Connect(c) /\ Started' <= MaxStarted
    \/ \E c \in Callers : AcquireLock(c)
    \/ \E c \in Callers : ConnectOk(c)
    \/ \E c \in Callers, err \in {"OSError", "TimeoutError"} :
           ConnectFail(c, err) /\ Started' <= MaxStarted
    \/ \E c \in Callers : GetConnectionDone(c)
    \/ \E c \in Callers : Resume(c) /\ Started' <= MaxStarted
    \/ \E c \in Callers : WaitForExpired(c) /\ Started' <= MaxStarted
    \/ \E t \in Tasks : Timeout(t)
    \/ \E e \in Engines, t \in Tasks : RunTaskDone(e, t)
    \/ \E e \in Engines, chunk \in Chunks : DataReceived(e, chunk)
    \/ \E e \in Engines : ConnectionLost(e)
    \/ \E e \in Engines : ConnLost(e)

Spec == Init /\ [][Next]_vars

\* The runs of a datagram connection with a positive timeout: calls,
\* their timeouts and their retries, as many as there are task ids.  A
\* datagram transport is closed by nothing but disconnect(), so that the
\* engine, once made, stays.
NextRetry ==
    \/ \E c \in Callers, cmd \in Cmds : DoTask(c, cmd)
    \/ \E c \in Callers : AcquireLock(c)
    \/ \E c \in Callers : ConnectOk(c)
    \/ \E c \in Callers : ConnectFail(c, "OSError")
    \/ \E c \in Callers : GetConnectionDone(c)
    \/ \E c \in Callers : Resume(c)
    \/ \E t \in Tasks : Timeout(t)
    \/ \E e \in Engines, t \in Tasks : RunTaskDone(e, t)
    \/ \E e \in Engines, chunk \in Chunks : DataReceived(e, chunk)

SpecRetry == InitDatagram /\ [][NextRetry]_vars

\* ------------------------------------------------------ the public calls
\* SpecApi: one caller makes one call of SymNetConnection after the other.
\* A call action runs the call up to the point where it hands its commands
\* to _do_task; issued is the list of those commands, in the order the call
\* made them, apiCall the call and apiOutcome "ok" or the exception that
\* ended it.  A command reaches a connection only through _do_task (Spec).
RcnMin == 1
RcnMax == 10000
SubRetryLimit == 3

Callbacks == {"cb1", "cb2"}
ApiRcns == {0, 1, 2, 10000, 10001}
ApiValues == {7}
BlockStarts == {0, 5}

\* A selector value is <<n>> for the integer n and None for the wildcard.
Num(n) == <<n>>

ParamInputs == {Num(n) : n \in ApiRcns} \cup {None}

\* iter(params), or [params] for a selector that is not iterable: a call is
\* modelled with the list it loops over.
ParamLists == UNION {[1..n -> ParamInputs] : n \in 1..MaxParams}

\* str(n) of an f-string.
RECURSIVE NatToChars(_)
NatToChars(n) ==
    IF n < 10 THEN <<Digits[n + 1]>>
    ELSE NatToChars(n \div 10) \o <<Digits[(n % 10) + 1]>>

IntToChars(n) == IF n < 0 THEN <<"-">> \o NatToChars(0 - n) ELSE NatToChars(n)

RECURSIVE JoinArgs(_)
JoinArgs(args) ==
    IF args = <<>> THEN <<>>
    ELSE <<" ">> \o IntToChars(Head(args)) \o JoinArgs(Tail(args))

\* The call _do_task(msg, factory, retry_limit).
Cmd(verb, args, kind, retry) ==
    [msg |-> verb \o JoinArgs(args), kind |-> kind, retry |-> retry]

V_GS == <<"G", "S">>
V_CS == <<"C", "S">>
V_CSQ == <<"C", "S", "Q">>
V_PUE == <<"P", "U", "E">>
V_PUD == <<"P", "U", "D">>
V_GDB == <<"G", "D", "B">>

\* CheckRcn with the lower limit of its message, 0.
CheckRcn_FromZero(param) ==
    IF param = None THEN "TypeError"
    ELSE IF param[1] < 0 \/ param[1] > RcnMax THEN "SymNetException"
    ELSE "none"

\* check_rcn: the exception it raises, "none" if it returns.
CheckRcn(param) ==
    IF param = None THEN "TypeError"
    ELSE IF param[1] < RcnMin \/ param[1] > RcnMax THEN "SymNetException"
    ELSE "none"

Keys(table) == DOMAIN table

TableAdd(table, key, cb) ==
    [k \in Keys(table) \cup {key} |->
        IF k = key
        THEN (IF key \in Keys(table) THEN table[key] \cup {cb} ELSE {cb})
        ELSE table[k]]

TableDel(table, key) == [k \in Keys(table) \ {key} |-> table[k]]

\* The loop of subscribe: the table when it ends and the exception that
\* ended it.
RECURSIVE SubscribeLoop(_, _, _)
SubscribeLoop(table, params, cb) ==
    IF params = <<>> THEN [table |-> table, exc |-> "none"]
    ELSE LET param == Head(params)
             exc == CheckRcn(param)
             key == IF param = None THEN -1 ELSE param[1]
         IN IF exc # "none" THEN [table |-> table, exc |-> exc]
            ELSE SubscribeLoop(TableAdd(table, key, cb), Tail(params), cb)

\* The loop of unsubscribe: the table, remove_subs and the exception.
RECURSIVE UnsubscribeLoop(_, _, _, _)
UnsubscribeLoop(table, params, cb, removed) ==
    IF params = <<>>
    THEN [table |-> table, removed |-> removed, exc |-> "none"]
    ELSE LET param == Head(params)
             exc == CheckRcn(param)
             key == IF param = None THEN -1 ELSE param[1]
         IN IF exc # "none"
            THEN [table |-> table, removed |-> removed, exc |-> exc]
            ELSE IF key \notin Keys(table)
            THEN UnsubscribeLoop(table, Tail(params), cb, removed)
            ELSE IF table[key] \ {cb} = {}
            THEN UnsubscribeLoop(TableDel(table, key), Tail(params), cb,
                                 Append(removed, key))
            ELSE UnsubscribeLoop([table EXCEPT ![key] = @ \ {cb}],
                                 Tail(params), cb, removed)

\* sorted(keys)
RECURSIVE Sorted(_)
Sorted(S) ==
    IF S = {} THEN <<>>
    ELSE LET m == CHOOSE x \in S : \A y \in S : x <= y
         IN <<m>> \o Sorted(S \ {m})

\* GroupRanges grouping by the value alone.
RECURSIVE GroupRanges_ByValue(_, _, _, _)
GroupRanges_ByValue(params, i, start, acc) ==
    IF i > Len(params)
    THEN IF params = <<>> THEN acc
         ELSE Append(acc, <<params[start], params[Len(params)]>>)
    ELSE IF i > 1 /\ params[i] # params[i - 1]
    THEN GroupRanges_ByValue(params, i + 1, i,
                             Append(acc, <<params[start], params[i - 1]>>))
    ELSE GroupRanges_ByValue(params, i + 1, start, acc)

\* itertools.groupby(enumerate(params), value - index): a group ends where
\* the key changes; each group gives (first value, last value).
RECURSIVE GroupRanges(_, _, _, _)
GroupRanges(params, i, start, acc) ==
    IF i > Len(params)
    THEN IF params = <<>> THEN acc
         ELSE Append(acc, <<params[start], params[Len(params)]>>)
    ELSE IF i > 1 /\ params[i] - (i - 1) # params[i - 1] - (i - 2)
    THEN GroupRanges(params, i + 1, i,
                     Append(acc, <<params[start], params[i - 1]>>))
    ELSE GroupRanges(params, i + 1, start, acc)

RangeCmd(r) ==
    IF r[1] = r[2] THEN Cmd(V_PUE, <<r[1]>>, "basic", SubRetryLimit)
    ELSE Cmd(V_PUE, <<r[1], r[2]>>, "basic", SubRetryLimit)

\* _update_subscriptions(deleted_params): the commands it gathers, the PUD
\* of every deleted parameter and then the PUE of every range.
UpdateSubscriptions(table, deleted) ==
    LET ranges == GroupRanges(Sorted(Keys(table)), 1, 1, <<>>) IN
    [i \in 1..Len(deleted) |-> Cmd(V_PUD, <<deleted[i]>>, "basic", SubRetryLimit)]
        \o [i \in 1..Len(ranges) |-> RangeCmd(ranges[i])]

Subscribe(params, cb) ==
    LET r == SubscribeLoop(subscriptions, params, cb) IN
    /\ apiCall.op = "none"
    /\ apiCall' = [op |-> "subscribe", params |-> params, cb |-> cb]
    /\ subscriptions' = r.table
    /\ IF r.exc # "none"
       THEN apiOutcome' = r.exc /\ issued' = <<>>
       ELSE apiOutcome' = "ok" /\ issued' = UpdateSubscriptions(r.table, <<>>)
    /\ UNCHANGED <<taskVars, engVars, loopVars, connVars, callerVars, updates,
                   delivered, otherVars>>

Unsubscribe(params, cb) ==
    LET r == UnsubscribeLoop(subscriptions, params, cb, <<>>) IN
    /\ apiCall.op = "none"
    /\ apiCall' = [op |-> "unsubscribe", params |-> params, cb |-> cb]
    /\ subscriptions' = r.table
    /\ IF r.exc # "none"
       THEN apiOutcome' = r.exc /\ issued' = <<>>
       ELSE apiOutcome' = "ok" /\ issued' = UpdateSubscriptions(r.table, r.removed)
    /\ UNCHANGED <<taskVars, engVars, loopVars, connVars, callerVars, updates,
                   delivered, otherVars>>

GetParam(param) ==
    /\ apiCall.op = "none"
    /\ apiCall' = [op |-> "get_param", params |-> <<param>>]
    /\ apiOutcome' = "ok"
    /\ issued' = <<Cmd(V_GS, param, "value", GetRetryLimit)>>
    /\ UNCHANGED <<subscriptions, taskVars, engVars, loopVars, connVars,
                   callerVars, updates, delivered, otherVars>>

SetParam(param, value) ==
    /\ apiCall.op = "none"
    /\ apiCall' = [op |-> "set_param", params |-> <<param>>]
    /\ apiOutcome' = "ok"
    /\ issued' = <<Cmd(V_CSQ, param \o <<value>>, "basic", DefaultRetryLimit)>>
    /\ UNCHANGED <<subscriptions, taskVars, engVars, loopVars, connVars,
                   callerVars, updates, delivered, otherVars>>

SetParamChecked(param, value) ==
    /\ apiCall.op = "none"
    /\ apiCall' = [op |-> "set_param_checked", params |-> <<param>>]
    /\ apiOutcome' = "ok"
    /\ issued' = <<Cmd(V_CS, param \o <<value>>, "basic", DefaultRetryLimit)>>
    /\ UNCHANGED <<subscriptions, taskVars, engVars, loopVars, connVars,
                   callerVars, updates, delivered, otherVars>>

\* get_param_block(start, count): the factory is SymNetMultiValueTask(),
\* so the task has the default start_control and control_count.
GetParamBlock(start, count) ==
    /\ apiCall.op = "none"
    /\ apiCall' = [op |-> "get_param_block", params |-> <<Num(start), Num(count)>>]
    /\ apiOutcome' = "ok"
    /\ issued' = <<[msg |-> V_GDB \o JoinArgs(<<start, count>>),
                    kind |-> "multivalue", retry |-> GetRetryLimit,
                    start |-> DefaultStartControl,
                    count |-> DefaultControlCount]>>
    /\ UNCHANGED <<subscriptions, taskVars, engVars, loopVars, connVars,
                   callerVars, updates, delivered, otherVars>>

\* The call is over; the caller may make the next one.
CallReturn ==
    /\ apiCall.op # "none"
    /\ apiCall' = [op |-> "none"]
    /\ apiOutcome' = "none"
    /\ issued' = <<>>
    /\ delivered' = <<>>
    /\ UNCHANGED <<subscriptions, taskVars, engVars, loopVars, connVars,
                   callerVars, updates, otherVars>>

NextApi ==
    \/ CallReturn
    \/ \E params \in ParamLists, cb \in Callbacks : Subscribe(params, cb)
    \/ \E params \in ParamLists, cb \in Callbacks : Unsubscribe(params, cb)
    \/ \E param \in ApiRcns : GetParam(Num(param))
    \/ \E param \in ApiRcns, value \in ApiValues : SetParam(Num(param), value)
    \/ \E param \in ApiRcns, value \in ApiValues :
           SetParamChecked(Num(param), value)
    \/ \E start \in BlockStarts, count \in 1..MaxCount :
           GetParamBlock(start, count)

SpecApi == InitPositive /\ [][NextApi]_vars

\* SpecRanges: _update_subscriptions on every table whose keys lie in
\* 1..MaxRcn.
InitRanges ==
    /\ InitEngine
    /\ mode = "any"
    /\ timeout = "positive"
    /\ InitCalls
    /\ subscriptions \in {[k \in S |-> {"cb1"}] : S \in SUBSET (1..MaxRcn)}

Reconcile ==
    /\ apiCall.op = "none"
    /\ apiCall' = [op |-> "_update_subscriptions"]
    /\ apiOutcome' = "ok"
    /\ issued' = UpdateSubscriptions(subscriptions, <<>>)
    /\ UNCHANGED <<subscriptions, taskVars, engVars, loopVars, connVars,
                   callerVars, updates, delivered, otherVars>>

NextRanges == Reconcile

SpecRanges == InitRanges /\ [][NextRanges]_vars

\* ----------------------------------------------------------------- gather
\* SpecGather: subscribe and unsubscribe to their end.  The commands of
\* _update_subscriptions are _do_task coroutines handed to asyncio.gather,
\* which runs them concurrently; each returns or raises (Spec), in any
\* order.  gather.children is the state of each, gather.outcome that of the
\* gather: it fails with the first child that raises and succeeds when all
\* have returned.
GatherOutcome(children) ==
    IF \E i \in 1..Len(children) : children[i] = "raised" THEN "raised"
    ELSE IF \A i \in 1..Len(children) : children[i] = "returned" THEN "returned"
    ELSE "waiting"

\* await asyncio.gather(*subscribe_tasks) begins.
GatherStart ==
    /\ apiCall.op \in {"subscribe", "unsubscribe"}
    /\ apiOutcome = "ok"
    /\ gather.outcome = "none"
    /\ IF issued = <<>>
       THEN gather' = [children |-> <<>>, outcome |-> "returned"]
       ELSE gather' = [children |-> [i \in 1..Len(issued) |-> "running"],
                       outcome |-> "waiting"]
    /\ UNCHANGED <<taskVars, engVars, loopVars, connVars, callerVars, updates,
                   apiVars, dspVars, dataVars, discVars, versionVars, convVars, ctlVars>>

\* The _do_task of command i returns or raises.  The outcome of the gather
\* is settled by the first child that raises or by the last that returns,
\* and stays.
ChildDone(i, how) ==
    /\ i \in 1..Len(gather.children)
    /\ gather.children[i] = "running"
    /\ LET children == [gather.children EXCEPT ![i] = how] IN
       gather' = [children |-> children,
                  outcome |-> IF gather.outcome = "waiting"
                              THEN GatherOutcome(children)
                              ELSE gather.outcome]
    /\ UNCHANGED <<taskVars, engVars, loopVars, connVars, callerVars, updates,
                   apiVars, dspVars, dataVars, discVars, versionVars, convVars, ctlVars>>

\* The gather is over for _update_subscriptions: subscribe or unsubscribe
\* returns, or raises what the gather raised.
GatherReturn ==
    /\ gather.outcome \in {"returned", "raised"}
    /\ gather' = NoGather
    /\ apiCall' = [op |-> "none"]
    /\ apiOutcome' = "none"
    /\ issued' = <<>>
    /\ UNCHANGED <<subscriptions, delivered, taskVars, engVars, loopVars,
                   connVars, callerVars, updates, dspVars, dataVars,
                   discVars, versionVars, convVars, ctlVars>>

\* A call that failed in its loop raises.
LoopRaise ==
    /\ apiCall.op \in {"subscribe", "unsubscribe"}
    /\ apiOutcome \notin {"ok", "none"}
    /\ CallReturn

NextGather ==
    \/ \E params \in ParamLists : Subscribe(params, "cb1")
    \/ \E params \in ParamLists : Unsubscribe(params, "cb1")
    \/ LoopRaise
    \/ GatherStart
    \/ \E i \in 1..(2 * MaxParams), how \in {"returned", "raised"} :
           ChildDone(i, how)
    \/ GatherReturn

SpecGather == InitPositive /\ [][NextGather]_vars

\* --------------------------------------------------------------- dummy DSP
\* SpecDsp: the callers of _do_task of Spec with the dummy DSP
\* (dummy_dsp.py) at the other end of every connection.  The callers get
\* and set one parameter, DspParam, and every set_param writes DspSetValue.
\* The device reads the commands in the order they were sent, keeps the
\* value and answers; its lines reach data_received one at a time.  The
\* device listens on a stream socket, and the timeout is positive: with
\* one that is not, no stream connection is ever made.
DspParam == 55
DspSetValue == 200

\* f"#{rcn}={val}\r", without the terminator.
UpdateLine(rcn, val) == <<"#">> \o IntToChars(rcn) \o <<"=">> \o IntToChars(val)

\* The device's socket for engine f is "open" until a reset has come for
\* it: "reset" when the engine's end closed with lines it had not read
\* (the device is sent a reset in place of the end of the stream), "shut"
\* when the device has sent to the socket after the engine's end closed
\* (the end of the stream is followed by a reset).  A socket that has
\* left clients, after a recv of b"", is one to which the sends are
\* dropped.
\* What the device sends, in order, when it reads the command of task t
\* from engine e with the first m connections accepted: the socket, the
\* line, and the task the line answers (0 for a line that answers none).
\* "GS" is answered with the value; "CSQ" stores the value, tells every
\* client, and acknowledges.
DspSends(e, t, m) ==
    IF tMsg[t] = "GS"
    THEN <<[to |-> e, line |-> IntToChars(dspVal), task |-> t,
            val |-> dspVal]>>
    ELSE [f \in 1..m |->
             [to |-> f, line |-> UpdateLine(DspParam, DspSetValue),
              task |-> 0, val |-> DspSetValue]]
         \o <<[to |-> e, line |-> L_ACK, task |-> t, val |-> DspSetValue]>>

\* The lines of sends that reach engine f: those sent to its socket while
\* its end is open.
DspReach(sends, f) ==
    LET mine == SelectSeq(sends, LAMBDA x : x.to = f /\ eOpen[f]) IN
    [i \in 1..Len(mine) |->
        [line |-> mine[i].line, task |-> mine[i].task, val |-> mine[i].val]]

\* The commands of engine e that left its transport: a transport that is
\* closing, or closed, sends nothing of what is written to it.
DspArrived(e) == IF dspCut[e] = -1 THEN Len(eWritten[e]) ELSE dspCut[e]

\* The task of the attempt that is in create_connection (0 if none): its
\* connection may be established, in the backlog of the listening socket,
\* when the device ends.
DspUnderWay ==
    IF \E c \in Callers : pc[c] = "connecting"
    THEN cTask[CHOOSE c \in Callers : pc[c] = "connecting"]
    ELSE 0

\* An exception leaves create_dummy_dsp: the process ends, and its params,
\* its clients and its sockets with it.
DspEnds ==
    /\ dspUp' = FALSE
    /\ dspSyn' = DspUnderWay
    /\ dspVal' = DspUnset
    /\ dspRead' = [e \in Engines |-> 0]
    /\ dspAccepted' = 0
    /\ dspSock' = [e \in Engines |-> "open"]

\* The device's socket for e after a pass of its loop that made sends: a
\* send to a socket whose other end is closed is answered with a reset.
DspSockAfter(sent) ==
    [f \in Engines |->
        IF /\ dspSock[f] = "open"
           /\ ~eOpen[f]
           /\ \E i \in 1..Len(sent) : sent[i].to = f
        THEN "shut" ELSE dspSock[f]]

\* A pass of the device's loop in which it reads the next command that
\* engine e sent, whatever became of the engine's end since.  The engines
\* connect one after the other and the device accepts in that order: by
\* now it has accepted the first m connections (at least that of e; an
\* accept shows only in who is told of a "CSQ").  A send to a socket whose
\* other end is closed goes out and is answered with a reset; once the
\* reset is there a send raises (BrokenPipeError, ConnectionResetError),
\* which nothing in create_dummy_dsp catches: the device ends at its k-th
\* send (k = 0: it goes on).
DspRead(e, k, m) ==
    LET t == eWritten[e][dspRead[e] + 1]
        sends == DspSends(e, t, m)
        sent == SubSeq(sends, 1, IF k = 0 THEN Len(sends) ELSE k - 1)
    IN
    /\ dspUp
    /\ e \in 1..nEng
    /\ dspRead[e] < DspArrived(e)
    /\ m \in 1..nEng /\ m >= dspAccepted /\ m >= e
    /\ tMsg[t] = "GS" => m = (IF dspAccepted > e THEN dspAccepted ELSE e)
    /\ k \in 0..Len(sends)
    /\ k # 0 => /\ ~eOpen[sends[k].to]
                /\ \/ dspSock[sends[k].to] \in {"reset", "shut"}
                   \/ \E i \in 1..(k - 1) : sends[i].to = sends[k].to
    /\ dspOut' = [f \in Engines |-> dspOut[f] \o DspReach(sent, f)]
    /\ IF k = 0
       THEN /\ dspAccepted' = m
            /\ dspRead' = [dspRead EXCEPT ![e] = @ + 1]
            /\ dspVal' = IF tMsg[t] = "GS" THEN dspVal ELSE DspSetValue
            /\ dspSock' = DspSockAfter(sent)
            /\ UNCHANGED <<dspUp, dspSyn>>
       ELSE DspEnds
    /\ UNCHANGED <<taskVars, engVars, loopVars, connVars, callerVars, updates,
                   apiVars, gather, dspReplied, dspCut, dataVars, discVars,
                   versionVars, convVars, ctlVars>>

\* A pass of the device's loop in which recv on the socket of engine e,
\* which was reset and whose commands are all read, raises
\* ConnectionResetError: nothing in create_dummy_dsp catches it and the
\* device ends.  (After an end of stream and a reset, recv returns b"" or
\* raises, as the platform has it.)
DspRecvReset(e) ==
    /\ dspUp
    /\ e \in 1..nEng /\ ~eOpen[e]
    /\ dspSock[e] \in {"reset", "shut"}
    /\ dspRead[e] = DspArrived(e)
    /\ DspEnds
    /\ UNCHANGED <<taskVars, engVars, loopVars, connVars, callerVars, updates,
                   apiVars, gather, dspOut, dspReplied, dspCut, dataVars,
                   discVars, versionVars, convVars, ctlVars>>

\* data_received on engine e with the next line of the device
\* (DataReceived); the transport is a stream.
DspDeliver(e) ==
    LET m == Head(dspOut[e])
        st == ProcessLines([Bundle EXCEPT !.src = "read"], e, eUpdCb[e],
                           <<m.line>>)
    IN
    /\ eOpen[e] /\ ~eClosing[e]
    /\ dspOut[e] # <<>>
    /\ ~\E t \in Tasks : <<e, t>> \in sched /\ schedHow[<<e, t>>] = "read"
    /\ Commit(st, waits)
    /\ mode' = IF st.exc # "none" THEN "tcp" ELSE mode
    /\ UNCHANGED timeout
    /\ eClosing' = [eClosing EXCEPT ![e] = st.exc # "none"]
    /\ dspCut' = IF st.exc # "none"
                 THEN [dspCut EXCEPT ![e] = Len(eWritten[e])]
                 ELSE dspCut
    /\ dspOut' = [dspOut EXCEPT ![e] = Tail(@)]
    /\ dspReplied' = IF m.task # 0 /\ eCur[e] = m.task
                     THEN dspReplied \cup {<<m.task, m.val>>}
                     ELSE dspReplied
    /\ UNCHANGED <<nTasks, tMsg, nEng, eOpen, eUpdCb, lostSched, protocol,
                   lockHolder, lockWaiters, nextConnectTasks, connEng,
                   callerVars, apiVars, gather, dspVal, dspRead, dspAccepted,
                   dspUp, dspSock, dspSyn, dataVars, discVars, versionVars,
                   convVars, ctlVars>>

\* create_connection succeeds: the device listens, or it listened when the
\* connection was established.
DspConnectOk(c) ==
    /\ dspUp \/ (cTask[c] # 0 /\ dspSyn = cTask[c])
    /\ ConnectOk(c)

\* The transport of e reads the end of the stream or an error: it closes,
\* which stops its reading and drops what is written from then on, and
\* its connection_lost is due.
DspTransportCloses(e) ==
    /\ eOpen[e] /\ ~eClosing[e]
    /\ eClosing' = [eClosing EXCEPT ![e] = TRUE]
    /\ mode' = "tcp"
    /\ UNCHANGED timeout
    /\ dspCut' = [dspCut EXCEPT ![e] = Len(eWritten[e])]
    /\ UNCHANGED <<taskVars, nEng, eCur, eQueue, eWritten, eSubmitted, eOpen,
                   eUpdCb, eImm, loopVars, protocol, lockHolder, lockWaiters,
                   nextConnectTasks, connEng, callerVars, updates, apiVars,
                   gather, dspVal, dspRead, dspOut, dspReplied, dspAccepted,
                   dspUp, dspSock, dspSyn, dataVars, discVars, versionVars,
                   convVars, ctlVars>>

\* connection_lost of a closing transport (ConnectionLost): its socket is
\* closed, and what it has not read is gone with it.
DspConnectionLost(e) ==
    /\ eClosing[e]
    /\ TransportLost(e)
    /\ dspOut' = [dspOut EXCEPT ![e] = <<>>]
    /\ dspSock' = [dspSock EXCEPT ![e] = IF dspUp /\ dspOut[e] # <<>>
                                         THEN "reset" ELSE @]
    /\ UNCHANGED <<gather, dspVal, dspRead, dspReplied, dspAccepted, dspUp,
                   dspCut, dspSyn, dataVars, discVars, versionVars, convVars,
                   ctlVars>>

NextDsp ==
    \/ \E c \in Callers, cmd \in Cmds : DoTask(c, cmd) /\ Started' <= MaxStarted
    \/ \E c \in Callers : AcquireLock(c)
    \/ \E c \in Callers : DspConnectOk(c)
    \/ \E c \in Callers, err \in {"OSError", "TimeoutError"} :
           ConnectFail(c, err) /\ Started' <= MaxStarted
    \/ \E c \in Callers : GetConnectionDone(c)
    \/ \E c \in Callers : Resume(c) /\ Started' <= MaxStarted
    \/ \E t \in Tasks : Timeout(t)
    \/ \E e \in Engines, t \in Tasks : RunTaskDone(e, t)
    \/ \E e \in Engines, k \in 0..(MaxEngines + 1), m \in Engines :
           DspRead(e, k, m)
    \/ \E e \in Engines : DspRecvReset(e)
    \/ \E e \in Engines : DspDeliver(e)
    \/ \E e \in Engines : DspTransportCloses(e)
    \/ \E e \in Engines : DspConnectionLost(e)
    \/ \E e \in Engines : ConnLost(e)

SpecDsp == InitPositive /\ [][NextDsp]_vars

\* An engine made by a call of _do_task, with the task of that call in
\* flight and its caller waiting for it.
InitTask ==
    /\ nTasks = 1
    /\ tMsg \in {[t \in Tasks |-> IF t = 1 THEN cmd ELSE "none"] :
                     cmd \in TaskCmds}
    /\ tKind = [t \in Tasks |-> IF t = 1 THEN CmdKind(tMsg[1]) ELSE "none"]
    /\ tState = [t \in Tasks |-> IF t = 1 THEN "pending" ELSE "absent"]
    /\ tErr = [t \in Tasks |-> "none"]
    /\ tVal = [t \in Tasks |-> 0]
    /\ tRegs = [t \in Tasks |-> IF t = 1 THEN {1} ELSE {}]
    /\ tStart \in {[t \in Tasks |-> IF t = 1 THEN s ELSE DefaultStartControl] :
                       s \in IF tKind[1] = "multivalue" THEN BlockStarts
                              ELSE {DefaultStartControl}}
    /\ tCount \in {[t \in Tasks |-> IF t = 1 THEN n ELSE DefaultControlCount] :
                       n \in IF tKind[1] = "multivalue" THEN 1..MaxCount
                              ELSE {DefaultControlCount}}
    /\ tStrs = [t \in Tasks |-> <<>>]
    /\ tValues = [t \in Tasks |-> <<>>]
    /\ tLineCtr = [t \in Tasks |-> 0]
    /\ tLines = [t \in Tasks |-> <<>>]
    /\ nEng = 1
    /\ eCur = [e \in Engines |-> IF e = 1 THEN 1 ELSE 0]
    /\ eQueue = [e \in Engines |-> <<>>]
    /\ eWritten = [e \in Engines |-> IF e = 1 THEN <<1>> ELSE <<>>]
    /\ eSubmitted = [e \in Engines |-> IF e = 1 THEN <<1>> ELSE <<>>]
    /\ eOpen = [e \in Engines |-> e = 1]
    /\ eUpdCb = [e \in Engines |-> e = 1]
    /\ eImm = [e \in Engines |-> {}]
    /\ eClosing = [e \in Engines |-> FALSE]
    /\ sched = {}
    /\ schedHow = <<>>
    /\ lostSched = {}
    /\ waits = <<1>>
    /\ protocol = 1
    /\ lockHolder = 0
    /\ lockWaiters = <<>>
    /\ nextConnectTasks = <<>>
    /\ connEng = 0
    /\ mode = "any"
    /\ timeout = "positive"
    /\ pc = [c \in Callers |-> IF c = 1 THEN "waiting" ELSE "idle"]
    /\ cCmd = [c \in Callers |-> IF c = 1 THEN tMsg[1] ELSE "none"]
    /\ cTask = [c \in Callers |-> IF c = 1 THEN 1 ELSE 0]
    /\ cCtr = [c \in Callers |-> 0]
    /\ cLastErr = [c \in Callers |-> "none"]
    /\ cAttempts = [c \in Callers |-> IF c = 1 THEN <<1>> ELSE <<>>]
    /\ updates = <<>>
    /\ subscriptions = <<>>
    /\ InitCalls

\* ------------------------------------------------------------ byte stream
\* SpecData: the peer sends bytes to an engine that has a pending task in
\* flight, and the transport hands them to data_received in chunks of any
\* length.  A byte is a one-character string.
CR == "\r"

Bytes == {"A", "K", CR}

\* data.split(b"\r"): the pieces between the separators, the last one being
\* what follows the last separator (all of data when there is none).
RECURSIVE SplitCR(_)
SplitCR(data) ==
    IF \E i \in 1..Len(data) : data[i] = CR
    THEN LET i == CHOOSE i \in 1..Len(data) :
                      data[i] = CR /\ \A j \in 1..(i - 1) : data[j] # CR
         IN <<SubSeq(data, 1, i - 1)>> \o SplitCR(SubSeq(data, i + 1, Len(data)))
    ELSE <<data>>

\* The lines data_received gives to _process_line:
\* data.split(b"\r")[:-1].
DataLines(data) == LET p == SplitCR(data) IN SubSeq(p, 1, Len(p) - 1)

PeerSend(b) ==
    /\ Len(dSent) + Len(dStream) < MaxStream
    /\ dStream' = Append(dStream, b)
    /\ UNCHANGED <<taskVars, engVars, loopVars, connVars, callerVars, updates,
                   apiVars, gather, dspVars, dSent, dLines, discVars,
                   versionVars, convVars, ctlVars>>

\* data_received(data) of the recorded engine with the first n bytes under
\* way: _process_line gets the lines of data one after the other up to the
\* first one on which it raises, and the exception leaves data_received as
\* in DataReceived.
ReceiveBytes(n) ==
    LET e == protocol
        data == SubSeq(dStream, 1, n)
        lines == DataLines(data)
        After(k) == ProcessLines([Bundle EXCEPT !.src = "read"], e, eUpdCb[e],
                                 SubSeq(lines, 1, k))
        given == IF After(Len(lines)).exc = "none" THEN Len(lines)
                 ELSE CHOOSE k \in 1..Len(lines) :
                          After(k).exc # "none" /\ After(k - 1).exc = "none"
        st == After(given)
    IN
    /\ n \in 1..Len(dStream)
    /\ e # 0 /\ eOpen[e] /\ ~eClosing[e]
    /\ dStream' = SubSeq(dStream, n + 1, Len(dStream))
    /\ dSent' = dSent \o data
    /\ dLines' = dLines \o SubSeq(lines, 1, given)
    /\ Commit(st, waits)
    /\ mode' \in ModeAfter(st.exc)
    /\ UNCHANGED timeout
    /\ eClosing' = [eClosing EXCEPT ![e] = st.exc # "none" /\ mode' = "tcp"]
    /\ UNCHANGED <<nTasks, tMsg, nEng, eOpen, eUpdCb, lostSched, protocol,
                   lockHolder, lockWaiters, nextConnectTasks, connEng,
                   callerVars, apiVars, gather, dspVars, discVars, versionVars,
                   convVars, ctlVars>>

NextData ==
    \/ \E b \in Bytes : PeerSend(b)
    \/ \E n \in 1..MaxStream : ReceiveBytes(n)

SpecData == InitTask /\ [][NextData]_vars

\* -------------------------------------------------------------- disconnect
\* SpecDisconnect: Spec with a caller of SymNetConnection.disconnect.
\* SymNetProtocol.disconnect aborts the transport, which closes it
\* (ConnectionLost follows), and awaits on_conn_lost.  _conn_lost was added
\* to that future first, so it runs right before the coroutine is resumed.
\* No data arrives here: tasks end by timeout only.

\* disconnect returning right after the abort, without the await.
Disconnect_NoWait ==
    /\ dPc = "idle"
    /\ dPc' = "returned"
    /\ dEng' = protocol
    /\ dFound' = IF protocol = 0 THEN "none"
                 ELSE IF eOpen[protocol] THEN "open" ELSE "closed"
    /\ dAborted' = IF protocol = 0 THEN dAborted ELSE dAborted \cup {protocol}
    /\ eClosing' = IF protocol # 0 /\ eOpen[protocol]
                   THEN [eClosing EXCEPT ![protocol] = TRUE]
                   ELSE eClosing
    /\ UNCHANGED <<taskVars, nEng, eCur, eQueue, eWritten, eSubmitted, eOpen,
                   eUpdCb, eImm, loopVars, connVars, callerVars, updates,
                   apiVars, gather, dspVars, dataVars, versionVars, convVars,
                   ctlVars>>

\* disconnect is called and runs to its return or to its await: at once
\* when _protocol is None; after the abort when on_conn_lost is set already
\* (the transport is closed, _conn_lost is still to run); otherwise it
\* waits.
Disconnect ==
    /\ dPc = "idle"
    /\ dPc' = IF protocol # 0 /\ eOpen[protocol] THEN "aborted" ELSE "returned"
    /\ dEng' = protocol
    /\ dFound' = IF protocol = 0 THEN "none"
                 ELSE IF eOpen[protocol] THEN "open" ELSE "closed"
    /\ dAborted' = IF protocol = 0 THEN dAborted ELSE dAborted \cup {protocol}
    /\ eClosing' = IF protocol # 0 /\ eOpen[protocol]
                   THEN [eClosing EXCEPT ![protocol] = TRUE]
                   ELSE eClosing
    /\ UNCHANGED <<taskVars, nEng, eCur, eQueue, eWritten, eSubmitted, eOpen,
                   eUpdCb, eImm, loopVars, connVars, callerVars, updates,
                   apiVars, gather, dspVars, dataVars, versionVars, convVars,
                   ctlVars>>

\* _conn_lost runs for the closed transport of e (ConnLost); the callback
\* after it on the same future resumes the disconnect that awaits it.
ConnLostResume(e) ==
    /\ e \in lostSched
    /\ lostSched' = lostSched \ {e}
    /\ IF protocol # 0
       THEN /\ nextConnectTasks' = GetQueueTasks(Bundle, protocol)
            /\ Commit(GetQueueAfter(Bundle, protocol), waits)
       ELSE /\ UNCHANGED nextConnectTasks
            /\ Commit(Bundle, waits)
    /\ protocol' = 0
    /\ dPc' = IF dPc = "aborted" /\ dEng = e THEN "returned" ELSE dPc
    /\ UNCHANGED <<nTasks, tMsg, nEng, eOpen, eClosing, eUpdCb, lockHolder,
                   lockWaiters, connEng, mode, timeout, callerVars, apiVars, gather,
                   dspVars, dataVars,
                   dEng, dFound, dAborted, versionVars, convVars, ctlVars>>

NextDisconnect ==
    \/ Disconnect
    \/ \E c \in Callers, cmd \in Cmds : DoTask(c, cmd) /\ Started' <= MaxStarted
    \/ \E c \in Callers : Connect(c) /\ Started' <= MaxStarted
    \/ \E c \in Callers : AcquireLock(c)
    \/ \E c \in Callers : ConnectOk(c)
    \/ \E c \in Callers, err \in {"OSError", "TimeoutError"} :
           ConnectFail(c, err) /\ Started' <= MaxStarted
    \/ \E c \in Callers : GetConnectionDone(c)
    \/ \E c \in Callers : Resume(c) /\ Started' <= MaxStarted
    \/ \E c \in Callers : WaitForExpired(c) /\ Started' <= MaxStarted
    \/ \E t \in Tasks : Timeout(t)
    \/ \E e \in Engines, t \in Tasks : RunTaskDone(e, t)
    \/ \E e \in Engines : ConnectionLost(e)
    \/ \E e \in Engines : ConnLostResume(e)

SpecDisconnect == Init /\ [][NextDisconnect]_vars

\* ------------------------------------------------------------- get_version
\* SpecVersion: callers of get_version.  _do_task("$v V", ...) returns the
\* version information the device answers with, or raises (Spec).  The
\* device is one of Versions and stays what it is.
Versions == {"v1", "v2"}

\* get_version that asks the device whatever _version is.
GetVersion_NoCache(c) ==
    /\ vPc[c] = "idle"
    /\ vPc' = [vPc EXCEPT ![c] = "querying"]
    /\ vQueried' = [vQueried EXCEPT ![c] = TRUE]
    /\ vSent' = vSent + 1
    /\ UNCHANGED <<version, vRet, vDevice>>
    /\ UNCHANGED <<taskVars, engVars, loopVars, connVars, callerVars, updates,
                   apiVars, gather, dspVars, dataVars, discVars, convVars, ctlVars>>

\* get_version is called: with _version set it returns it, otherwise it
\* calls _do_task and waits.
GetVersion(c) ==
    /\ vPc[c] = "idle"
    /\ IF version = None
       THEN /\ vPc' = [vPc EXCEPT ![c] = "querying"]
            /\ vQueried' = [vQueried EXCEPT ![c] = TRUE]
            /\ vSent' = vSent + 1
            /\ UNCHANGED vRet
       ELSE /\ vPc' = [vPc EXCEPT ![c] = "returned"]
            /\ vRet' = [vRet EXCEPT ![c] = version]
            /\ UNCHANGED <<vQueried, vSent>>
    /\ UNCHANGED <<version, vDevice>>
    /\ UNCHANGED <<taskVars, engVars, loopVars, connVars, callerVars, updates,
                   apiVars, gather, dspVars, dataVars, discVars, convVars, ctlVars>>

\* _do_task returns r: it is stored in _version, and _version is returned.
VersionResult(c, r) ==
    /\ vPc[c] = "querying"
    /\ vDevice \in {None, <<r>>}
    /\ vDevice' = <<r>>
    /\ version' = <<r>>
    /\ vRet' = [vRet EXCEPT ![c] = <<r>>]
    /\ vPc' = [vPc EXCEPT ![c] = "returned"]
    /\ UNCHANGED <<vQueried, vSent>>
    /\ UNCHANGED <<taskVars, engVars, loopVars, connVars, callerVars, updates,
                   apiVars, gather, dspVars, dataVars, discVars, convVars, ctlVars>>

\* _do_task raises: so does get_version, before the assignment.
VersionError(c) ==
    /\ vPc[c] = "querying"
    /\ vPc' = [vPc EXCEPT ![c] = "raised"]
    /\ UNCHANGED <<version, vQueried, vRet, vSent, vDevice>>
    /\ UNCHANGED <<taskVars, engVars, loopVars, connVars, callerVars, updates,
                   apiVars, gather, dspVars, dataVars, discVars, convVars, ctlVars>>

NextVersion ==
    \/ \E c \in Callers : GetVersion(c)
    \/ \E c \in Callers, r \in Versions : VersionResult(c, r)
    \/ \E c \in Callers : VersionError(c)

SpecVersion == InitPositive /\ [][NextVersion]_vars

\* -------------------------------------------------------------- converters
\* SpecConv: calls of DecibelConverter() with the default fader range, -72
\* to +12 dB.  A decibel value is a float (IEEE 754 binary64).  A finite
\* float is [kind |-> "fin", neg, bits, exp], the number
\* (-1)^neg * n * 2^exp where bits is n in binary, most significant bit
\* first, with n odd (bits is empty for 0); the kinds "ninf", "pinf" and
\* "nan" are the floats that are not finite.  Arithmetic is exact on the
\* bits and then rounded to Precision bits, to nearest, ties to even.  No
\* float here is near the ends of the exponent range.
FaderMin == -72
FaderMax == 12
RcnFull == 65535
Precision == 53

NegInf == [kind |-> "ninf"]
PosInf == [kind |-> "pinf"]
NaN == [kind |-> "nan"]

Returns(v) == [ok |-> TRUE, val |-> v]
Raised(exc) == [ok |-> FALSE, exc |-> exc]

Min2(a, b) == IF a < b THEN a ELSE b
Max2(a, b) == IF a > b THEN a ELSE b

Zeros(n) == [i \in 1..n |-> 0]

Front(b) == SubSeq(b, 1, Len(b) - 1)

\* The binary numeral of a natural number, and the number of a numeral.
RECURSIVE Bits(_)
Bits(n) == IF n = 0 THEN <<>> ELSE Append(Bits(n \div 2), n % 2)

RECURSIVE BitsVal(_)
BitsVal(b) == IF b = <<>> THEN 0 ELSE 2 * BitsVal(Front(b)) + b[Len(b)]

\* A numeral in digits of LimbBits bits each (base Limb), the form in which
\* the arithmetic below is done, and back.
LimbBits == 12
Limb == 4096

Limbs(b) ==
    LET n == (Len(b) + LimbBits - 1) \div LimbBits
        p == Zeros(n * LimbBits - Len(b)) \o b
    IN [i \in 1..n |-> BitsVal(SubSeq(p, (i - 1) * LimbBits + 1, i * LimbBits))]

Unlimbs(l) ==
    LET d == [i \in 1..Len(l) |->
                 LET c == Bits(l[i]) IN Zeros(LimbBits - Len(c)) \o c]
    IN [i \in 1..(Len(l) * LimbBits) |->
           d[((i - 1) \div LimbBits) + 1][((i - 1) % LimbBits) + 1]]

\* A numeral without its leading zeros.
Lead(b) ==
    IF \A i \in 1..Len(b) : b[i] = 0 THEN <<>>
    ELSE LET k == CHOOSE i \in 1..Len(b) :
                      b[i] = 1 /\ \A j \in 1..(i - 1) : b[j] = 0
         IN SubSeq(b, k, Len(b))

\* The float of sign neg and magnitude b * 2^e, b of at most Precision
\* bits after its leading zeros: without its leading and trailing zeros.
Fin(neg, b, e) ==
    LET c == Lead(b)
        k == CHOOSE i \in 1..Len(c) :
                 c[i] = 1 /\ \A j \in (i + 1)..Len(c) : c[j] = 0
    IN IF c = <<>> THEN [kind |-> "fin", neg |-> FALSE, bits |-> <<>>, exp |-> 0]
       ELSE [kind |-> "fin", neg |-> neg, bits |-> SubSeq(c, 1, k),
             exp |-> e + Len(c) - k]

\* float(n) of an integer of at most Precision bits.
FromInt(n) == IF n < 0 THEN Fin(TRUE, Bits(0 - n), 0) ELSE Fin(FALSE, Bits(n), 0)

Db(v) == FromInt(v)

\* b + 1.
Inc(b) ==
    IF \A i \in 1..Len(b) : b[i] = 1 THEN <<1>> \o Zeros(Len(b))
    ELSE LET k == CHOOSE i \in 1..Len(b) :
                      b[i] = 0 /\ \A j \in (i + 1)..Len(b) : b[j] = 1
         IN SubSeq(b, 1, k - 1) \o <<1>> \o Zeros(Len(b) - k)

\* The float nearest to b * 2^e (plus a fraction of its last place when
\* sticky), ties to even.
Round(neg, b, e, sticky) ==
    LET c == Lead(b)
        n == Len(c)
        keep == SubSeq(c, 1, Precision)
        rest == sticky \/ \E i \in (Precision + 2)..n : c[i] = 1
        up == c[Precision + 1] = 1 /\ (rest \/ keep[Precision] = 1)
    IN IF n <= Precision THEN Fin(neg, c, e)
       ELSE Fin(neg, IF up THEN Inc(keep) ELSE keep, e + n - Precision)

\* a + b + carry and a - b - borrow (a >= b) of numerals of one length.
RECURSIVE AddLimbs(_, _, _)
AddLimbs(a, b, carry) ==
    IF a = <<>> THEN <<carry>>
    ELSE LET v == a[Len(a)] + b[Len(b)] + carry
         IN Append(AddLimbs(Front(a), Front(b), v \div Limb), v % Limb)

RECURSIVE SubLimbs(_, _, _)
SubLimbs(a, b, borrow) ==
    IF a = <<>> THEN <<>>
    ELSE LET v == a[Len(a)] - b[Len(b)] - borrow
         IN Append(SubLimbs(Front(a), Front(b), IF v < 0 THEN 1 ELSE 0),
                   IF v < 0 THEN v + Limb ELSE v)

\* x + y of finite floats.
FAdd(x, y) ==
    LET e == Min2(x.exp, y.exp)
        a0 == x.bits \o Zeros(x.exp - e)
        b0 == y.bits \o Zeros(y.exp - e)
        n == Max2(Len(a0), Len(b0))
        a == Zeros(n - Len(a0)) \o a0
        b == Zeros(n - Len(b0)) \o b0
        less == \E i \in 1..n : a[i] < b[i] /\ \A j \in 1..(i - 1) : a[j] = b[j]
        sum == Unlimbs(AddLimbs(Limbs(a), Limbs(b), 0))
    IN IF x.neg = y.neg THEN Round(x.neg, sum, e, FALSE)
       ELSE IF less
       THEN Round(y.neg, Unlimbs(SubLimbs(Limbs(b), Limbs(a), 0)), e, FALSE)
       ELSE Round(x.neg, Unlimbs(SubLimbs(Limbs(a), Limbs(b), 0)), e, FALSE)

\* a * k + carry for a natural number k < 2^17.
RECURSIVE MulLimbs(_, _, _)
MulLimbs(a, k, carry) ==
    IF a = <<>> THEN <<carry \div Limb, carry % Limb>>
    ELSE LET v == a[Len(a)] * k + carry
         IN Append(MulLimbs(Front(a), k, v \div Limb), v % Limb)

\* x * float(k) of a finite float, 0 <= k < 2^17.
FMul(x, k) == Round(x.neg, Unlimbs(MulLimbs(Limbs(x.bits), k, 0)), x.exp, FALSE)

\* The quotient of a by d, 0 < d < 2^17, digit by digit, and the remainder.
RECURSIVE DivLimbs(_, _, _, _)
DivLimbs(a, d, rem, acc) ==
    IF a = <<>> THEN [quot |-> acc, rem |-> rem]
    ELSE LET r == rem * Limb + a[1]
         IN DivLimbs(Tail(a), d, r % d, Append(acc, r \div d))

\* x / float(d) of a finite float, 0 < d < 2^17: the quotient is taken to
\* more than Precision + 2 bits.
FDiv(x, d) ==
    LET extra == Precision + 19
        q == DivLimbs(Limbs(x.bits \o Zeros(extra)), d, 0, <<>>)
    IN Round(x.neg, Unlimbs(q.quot), x.exp - extra, q.rem # 0)

\* int(x) of a finite float: towards zero.
Trunc(x) ==
    LET n == IF x.exp >= 0 THEN BitsVal(x.bits \o Zeros(x.exp))
             ELSE BitsVal(SubSeq(x.bits, 1, Len(x.bits) + x.exp))
    IN IF x.neg THEN 0 - n ELSE n

\* from_rcn(val): min + delta * float(val) / 65535.0, and -inf for 0.
FromRcn(val) ==
    IF val = 0 THEN Returns(NegInf)
    ELSE Returns(FAdd(FromInt(FaderMin),
                      FDiv(FMul(FromInt(FaderMax - FaderMin), val), RcnFull)))

\* to_rcn(val): int((val - min) * 65535.0 / delta) clamped to 0..65535,
\* and 0 for -inf.  int() of +inf raises OverflowError, of NaN ValueError.
ToRcn(val) ==
    CASE val.kind = "ninf" -> Returns(0)
      [] val.kind = "pinf" -> Raised("OverflowError")
      [] val.kind = "nan" -> Raised("ValueError")
      [] OTHER ->
            Returns(Max2(0, Min2(RcnFull,
                Trunc(FDiv(FMul(FAdd(val, FromInt(0 - FaderMin)), RcnFull),
                           FaderMax - FaderMin)))))

RcnInputs == {0, 1, 2, 32768, RcnFull - 1, RcnFull}

\* min_db of the tests, the float -71.9977 (-0x1.1ffda5119ce07p+6).
MinDb ==
    Fin(TRUE,
        <<1, 0, 0, 0, 1, 1, 1, 1, 1, 1, 1, 1, 1, 1, 1, 0, 1, 1,
          0, 1, 0, 0, 1, 0, 1, 0, 0, 0, 1, 0, 0, 0, 1, 1, 0, 0,
          1, 1, 1, 0, 0, 1, 1, 1, 0, 0, 0, 0, 0, 0, 1, 1, 1>>, -46)

\* The arguments of to_rcn: the whole decibels around the fader range, what
\* from_rcn returned for RcnInputs, min_db, and the floats that are not
\* finite.
DbInputs ==
    {Db(v) : v \in (FaderMin - MaxDb)..(FaderMax + MaxDb)}
        \cup {FromRcn(v).val : v \in RcnInputs}
        \cup {MinDb, NegInf, PosInf, NaN}

CallFromRcn(val) ==
    /\ cvOp' = "from_rcn"
    /\ cvIn' = val
    /\ cvOut' = FromRcn(val)
    /\ UNCHANGED <<taskVars, engVars, loopVars, connVars, callerVars, updates,
                   apiVars, gather, dspVars, dataVars, discVars, versionVars,
                   ctlVars>>

CallToRcn(val) ==
    /\ cvOp' = "to_rcn"
    /\ cvIn' = val
    /\ cvOut' = ToRcn(val)
    /\ UNCHANGED <<taskVars, engVars, loopVars, connVars, callerVars, updates,
                   apiVars, gather, dspVars, dataVars, discVars, versionVars,
                   ctlVars>>

NextConv ==
    \/ \E val \in RcnInputs : CallFromRcn(val)
    \/ \E val \in DbInputs : CallToRcn(val)

SpecConv == InitPositive /\ [][NextConv]_vars

\* ----------------------------------------------------------------- control
\* SpecControl: one DSPControl without a converter, subscribed or not, and
\* calls of set_value (the value setter starts one without awaiting it) and
\* of get_value (async_init makes one) that start whenever they are made
\* and overlap as they may, MaxCalls of them at a time.  set_param and
\* get_param are taken by what _do_task gives the caller: a return, or
\* SymNetException (NAK), TimeoutError or OSError.  The command of a
\* set_param is under way until the device reads it, during the call or
\* after it; the device then stores the value and tells its clients.  It
\* answers a get_param with the value it holds at that moment, -1 while it
\* holds none.  A command and an update line carry the call that waits for
\* their acknowledgement (by; 0 once that call has given up on it).
CtlValues == {1, 2}
CtlErrors == {"SymNetException", "TimeoutError", "OSError"}

CtlRest ==
    <<taskVars, engVars, loopVars, connVars, callerVars, updates, apiVars,
      gather, dspVars, dataVars, discVars, versionVars, convVars>>

\* A call can be made as i: no call is running as i.
CtlFree(i) == ctlPc[i] = "idle"

\* s without its n-th element.
CtlDrop(s, n) == SubSeq(s, 1, n - 1) \o SubSeq(s, n + 1, Len(s))

\* s with the call i of its elements given up.
CtlOrphan(s, i) ==
    [n \in 1..Len(s) |-> IF s[n].by = i THEN [s[n] EXCEPT !.by = 0] ELSE s[n]]

\* The frame of call i as it is when the call is over.
CtlEnd(i, how) ==
    /\ ctlPc' = [ctlPc EXCEPT ![i] = "idle"]
    /\ ctlEnd' = [ctlEnd EXCEPT ![i] = how]
    /\ ctlVal' = [ctlVal EXCEPT ![i] = None]
    /\ ctlOld' = [ctlOld EXCEPT ![i] = None]
    /\ ctlErr' = [ctlErr EXCEPT ![i] = "none"]
    /\ ctlGot' = [ctlGot EXCEPT ![i] = None]

\* set_value(val, force) to its return as unchanged, or to the await of
\* set_param, whose command (one attempt) is under way.
SetValue(i, val, force) ==
    /\ CtlFree(i)
    /\ ctlOp' = [ctlOp EXCEPT ![i] = "set_value"]
    /\ IF ~force /\ ~lastSetFailed /\ Num(val) = currValue
       THEN /\ ctlEnd' = [ctlEnd EXCEPT ![i] = "unchanged"]
            /\ UNCHANGED <<currValue, ctlPc, ctlCmd, ctlVal, ctlOld>>
       ELSE /\ Len(ctlCmd) < MaxCmds
            /\ currValue' = Num(val)
            /\ ctlVal' = [ctlVal EXCEPT ![i] = Num(val)]
            /\ ctlOld' = [ctlOld EXCEPT ![i] = currValue]
            /\ ctlPc' = [ctlPc EXCEPT ![i] = "set_param"]
            /\ ctlCmd' = Append(ctlCmd, [val |-> val, by |-> i])
            /\ ctlEnd' = [ctlEnd EXCEPT ![i] = "none"]
    /\ UNCHANGED <<lastSetFailed, devValue, ctlPush, ctlErr, ctlGot>>
    /\ UNCHANGED CtlRest

\* get_value() called on its own, to the await of get_param.
GetValue(i) ==
    /\ CtlFree(i)
    /\ ctlOp' = [ctlOp EXCEPT ![i] = "get_value"]
    /\ ctlPc' = [ctlPc EXCEPT ![i] = "get_value"]
    /\ ctlEnd' = [ctlEnd EXCEPT ![i] = "none"]
    /\ UNCHANGED <<currValue, lastSetFailed, devValue, ctlPush, ctlVal, ctlOld,
                   ctlErr, ctlCmd, ctlGot>>
    /\ UNCHANGED CtlRest

\* The device reads the n-th of the commands under way: it stores the
\* value and sends the update line to its clients.
DeviceStores(n) ==
    /\ n \in 1..Len(ctlCmd)
    /\ Len(ctlPush) < MaxPush
    /\ ctlCmd' = CtlDrop(ctlCmd, n)
    /\ devValue' = ctlCmd[n].val
    /\ ctlPush' = Append(ctlPush, ctlCmd[n])
    /\ UNCHANGED <<currValue, lastSetFailed, ctlOp, ctlPc, ctlVal, ctlOld,
                   ctlErr, ctlEnd, ctlGot>>
    /\ UNCHANGED CtlRest

\* The n-th of the commands under way, which no call waits for any more,
\* never reaches the device.
CommandLost(n) ==
    /\ n \in 1..Len(ctlCmd)
    /\ ctlCmd[n].by = 0
    /\ ctlCmd' = CtlDrop(ctlCmd, n)
    /\ UNCHANGED <<currValue, lastSetFailed, devValue, ctlPush, ctlOp, ctlPc,
                   ctlVal, ctlOld, ctlErr, ctlEnd, ctlGot>>
    /\ UNCHANGED CtlRest

\* The next update line reaches the control: _rcn_updated stores its value.
RcnUpdated ==
    /\ ctlPush # <<>>
    /\ currValue' = Num(Head(ctlPush).val)
    /\ ctlPush' = Tail(ctlPush)
    /\ UNCHANGED <<lastSetFailed, devValue, ctlOp, ctlPc, ctlVal, ctlOld,
                   ctlErr, ctlEnd, ctlCmd, ctlGot>>
    /\ UNCHANGED CtlRest

\* The next update line reaches no subscription of the control: the
\* control is not subscribed, or the line is lost with its connection.
UpdateLost ==
    /\ ctlPush # <<>>
    /\ ctlPush' = Tail(ctlPush)
    /\ UNCHANGED <<currValue, lastSetFailed, devValue, ctlOp, ctlPc, ctlVal,
                   ctlOld, ctlErr, ctlEnd, ctlCmd, ctlGot>>
    /\ UNCHANGED CtlRest

\* set_param returns: the device has stored the value, and the update line
\* it sent ahead of its acknowledgement is no longer under way.
SetParamReturns(i) ==
    /\ ctlPc[i] = "set_param"
    /\ \A n \in 1..Len(ctlCmd) : ctlCmd[n].by # i
    /\ \A n \in 1..Len(ctlPush) : ctlPush[n].by # i
    /\ lastSetFailed' = FALSE
    /\ CtlEnd(i, "returned")
    /\ UNCHANGED <<currValue, devValue, ctlPush, ctlOp, ctlCmd>>
    /\ UNCHANGED CtlRest

\* set_param raises err, whatever has become of its command: set_value
\* goes on to get_value.
SetParamRaises(i, err) ==
    /\ ctlPc[i] = "set_param"
    /\ ctlErr' = [ctlErr EXCEPT ![i] = err]
    /\ ctlPc' = [ctlPc EXCEPT ![i] = "get_value"]
    /\ ctlCmd' = CtlOrphan(ctlCmd, i)
    /\ ctlPush' = CtlOrphan(ctlPush, i)
    /\ UNCHANGED <<currValue, lastSetFailed, devValue, ctlOp, ctlVal, ctlOld,
                   ctlEnd, ctlGot>>
    /\ UNCHANGED CtlRest

\* The device answers a get_param of call i (of any of its attempts) with
\* the value it holds.
DeviceAnswers(i) ==
    /\ ctlPc[i] = "get_value"
    /\ ctlGot[i] # Num(devValue)
    /\ ctlGot' = [ctlGot EXCEPT ![i] = Num(devValue)]
    /\ UNCHANGED <<currValue, lastSetFailed, devValue, ctlPush, ctlOp, ctlPc,
                   ctlVal, ctlOld, ctlErr, ctlEnd, ctlCmd>>
    /\ UNCHANGED CtlRest

\* get_value returns: _rcn_updated has stored the answer and get_value
\* returns _curr_value.  In set_value, when that is val the call returns,
\* otherwise err is raised.
GetValueReturns(i) ==
    /\ ctlPc[i] = "get_value"
    /\ ctlGot[i] # None
    /\ currValue' = ctlGot[i]
    /\ IF ctlOp[i] = "get_value"
       THEN /\ CtlEnd(i, "returned")
            /\ UNCHANGED lastSetFailed
       ELSE IF ctlVal[i] = ctlGot[i]
       THEN /\ lastSetFailed' = FALSE
            /\ CtlEnd(i, "returned")
       ELSE /\ UNCHANGED lastSetFailed
            /\ CtlEnd(i, "raised")
    /\ UNCHANGED <<devValue, ctlPush, ctlOp, ctlCmd>>
    /\ UNCHANGED CtlRest

\* get_value raises err2.  In set_value, SymNetException is caught, the old
\* value restored and err raised; any other exception leaves the handler
\* as it is.
GetValueRaises(i, err2) ==
    /\ ctlPc[i] = "get_value"
    /\ IF ctlOp[i] = "set_value" /\ err2 = "SymNetException"
       THEN /\ currValue' = ctlOld[i]
            /\ lastSetFailed' = TRUE
       ELSE UNCHANGED <<currValue, lastSetFailed>>
    /\ CtlEnd(i, "raised")
    /\ UNCHANGED <<devValue, ctlPush, ctlOp, ctlCmd>>
    /\ UNCHANGED CtlRest

NextControl ==
    \/ \E i \in CtlCalls, val \in CtlValues, force \in BOOLEAN :
           SetValue(i, val, force)
    \/ \E i \in CtlCalls : GetValue(i)
    \/ \E n \in 1..MaxCmds : DeviceStores(n)
    \/ \E n \in 1..MaxCmds : CommandLost(n)
    \/ RcnUpdated
    \/ UpdateLost
    \/ \E i \in CtlCalls : SetParamReturns(i)
    \/ \E i \in CtlCalls, err \in CtlErrors : SetParamRaises(i, err)
    \/ \E i \in CtlCalls : DeviceAnswers(i)
    \/ \E i \in CtlCalls : GetValueReturns(i)
    \/ \E i \in CtlCalls, err2 \in CtlErrors : GetValueRaises(i, err2)

SpecControl == InitPositive /\ [][NextControl]_vars

\* ------------------------------------------------------------------ tasks
\* SpecTask: one task of each class in flight on a connected engine, its
\* caller waiting in _do_task.  Reply lines reach the task through
\* data_received, and handle_line is also run as a coroutine on its own.
\* What the caller does once its wait is over is part of Spec.
TaskLines == {L_ACK, L_NAK, L_7, L_9, L_m1, L_gt}

TaskChunks == {<<line>> : line \in TaskLines}

RECURSIVE SumLen(_, _)
SumLen(f, S) ==
    IF S = {} THEN 0
    ELSE LET x == CHOOSE y \in S : TRUE IN Len(f[x]) + SumLen(f, S \ {x})

\* await task.handle_line(line) for the in-flight task of an engine: the
\* coroutine body runs.
AwaitHandleLine(t, line) ==
    /\ \E e \in Engines : eCur[e] = t
    /\ SumLen(tLines, Tasks) < MaxLines
    /\ Commit(HandleLineBody([Bundle EXCEPT !.lines[t] = Append(@, line)],
                             t, line), waits)
    /\ UNCHANGED <<nTasks, tMsg, nEng, eOpen, eClosing, eUpdCb, lostSched, connVars,
                   callerVars, apiVars, otherVars>>

NextTask ==
    \/ \E t \in Tasks, line \in TaskLines : AwaitHandleLine(t, line)
    \/ \E e \in Engines, chunk \in TaskChunks : DataReceived(e, chunk)
    \/ \E e \in Engines, t \in Tasks : RunTaskDone(e, t)

SpecTask == InitTask /\ [][NextTask]_vars

\* ---------------------------------------------------------------- publish
\* SpecPublish: publish on every table that calls of subscribe and
\* unsubscribe can leave over the parameters PubKeys.  Wildcard is the key
\* that subscribe and unsubscribe give the selector None; check_rcn lets
\* neither None nor -1 through, so no table has that key.
Wildcard == -1

PubCallbacks == Callbacks \cup {"cbRaise"}
PubKeys == {1, 2}
PubRcns == {1, 2, 3}

\* The callbacks that raise an Exception when called.
Raises(cb) == cb = "cbRaise"

\* The orders in which iterating a set can give its members.
Orders(S) ==
    {f \in [1..Cardinality(S) -> S] :
        \A i, j \in 1..Cardinality(S) : i # j => f[i] # f[j]}

\* GetSubscribers giving the first callback of param only.
GetSubscribers_First(table, param, w, s) ==
    (IF Wildcard \in Keys(table) THEN w ELSE <<>>) \o SubSeq(s, 1, 1)

\* _get_subscribers(param) for a param of the table: the callbacks of the
\* wildcard key in the order w, then the callbacks of param in the order s.
GetSubscribers(table, param, w, s) ==
    (IF Wildcard \in Keys(table) THEN w ELSE <<>>) \o s

\* PublishLoop letting the exception of a callback out.
RECURSIVE PublishLoop_Propagate(_, _, _, _)
PublishLoop_Propagate(cbs, param, value, acc) ==
    IF cbs = <<>> THEN [invoked |-> acc, exc |-> "none"]
    ELSE IF Raises(Head(cbs))
    THEN [invoked |-> Append(acc, <<Head(cbs), param, value>>),
          exc |-> "Exception"]
    ELSE PublishLoop_Propagate(Tail(cbs), param, value,
                               Append(acc, <<Head(cbs), param, value>>))

\* The loop of publish: every callback is called inside try / except
\* Exception, so the loop goes on whether or not the callback raises.
RECURSIVE PublishLoop(_, _, _, _)
PublishLoop(cbs, param, value, acc) ==
    IF cbs = <<>> THEN [invoked |-> acc, exc |-> "none"]
    ELSE PublishLoop(Tail(cbs), param, value,
                     Append(acc, <<Head(cbs), param, value>>))

\* publish(param, value): delivered is the list of callback invocations.
Publish(param, value) ==
    /\ apiCall.op = "none"
    /\ apiCall' = [op |-> "publish", params |-> <<Num(param)>>, value |-> value]
    /\ issued' = <<>>
    /\ IF param \in Keys(subscriptions)
       THEN \E w \in Orders(IF Wildcard \in Keys(subscriptions)
                             THEN subscriptions[Wildcard] ELSE {}),
               s \in Orders(subscriptions[param]) :
                LET r == PublishLoop(GetSubscribers(subscriptions, param, w, s),
                                     param, value, <<>>)
                IN /\ delivered' = r.invoked
                   /\ apiOutcome' = IF r.exc = "none" THEN "ok" ELSE r.exc
       ELSE /\ delivered' = <<>>
            /\ apiOutcome' = "ok"
    /\ UNCHANGED <<subscriptions, taskVars, engVars, loopVars, connVars,
                   callerVars, updates, otherVars>>

InitPublish ==
    /\ InitEngine
    /\ mode = "any"
    /\ timeout = "positive"
    /\ InitCalls
    /\ subscriptions \in
           UNION {[S -> SUBSET PubCallbacks \ {{}}] : S \in SUBSET PubKeys}

NextPublish ==
    \/ CallReturn
    \/ \E param \in PubRcns, value \in ApiValues : Publish(param, value)

SpecPublish == InitPublish /\ [][NextPublish]_vars

\* ------------------------------------------------------------- properties
Terminal(t) == tState[t] \in {"result", "error", "cancelled"}

Before(s, i, j) == \E m, n \in 1..Len(s) : m < n /\ s[m] = i /\ s[n] = j

NoImmediate == \A e \in Engines : eImm[e] = {}

\* C1: as long as no task was submitted with queue_task_immediate, every
\* engine writes the commands in the order of their queue_task calls (what is
\* written followed by what still waits is the list of submissions), and a
\* task is terminal only if every task submitted before it is terminal.
C1_FifoOrder ==
    NoImmediate =>
        \A e \in Engines :
            /\ eWritten[e] \o eQueue[e] = eSubmitted[e]
            /\ \A i, j \in Tasks :
                   Before(eSubmitted[e], i, j) /\ Terminal(j) => Terminal(i)

\* Three tasks were queued on one engine: the first was written and failed,
\* the second was written after it and is in flight, the third waits.
C1_Witness ==
    /\ NoImmediate
    /\ \E e \in Engines :
           /\ Len(eSubmitted[e]) = 3
           /\ eWritten[e] = SubSeq(eSubmitted[e], 1, 2)
           /\ eQueue[e] = <<eSubmitted[e][3]>>
           /\ eCur[e] = eSubmitted[e][2]
           /\ tState[eSubmitted[e][1]] = "error"
           /\ tState[eSubmitted[e][2]] = "pending"

\* The pairs of engine e that are still unresolved: the in-flight pair if
\* its task is pending, then the queue.
PendingWork(e) ==
    (IF eCur[e] # 0 /\ tState[eCur[e]] = "pending" THEN <<eCur[e]>> ELSE <<>>)
        \o eQueue[e]

\* The in-flight pair of e followed by its queue.
EngineWork(cur, queue) == (IF cur # 0 THEN <<cur>> ELSE <<>>) \o queue

\* C2: when _conn_lost discards the engine, the work held for redelivery is
\* exactly the engine's pending in-flight pair followed by its queue; the
\* held work does not change while no engine is recorded; and when
\* _get_connection records a new engine, that engine holds the held work
\* once each, in order and ahead of everything else but the caller's own
\* task, and nothing is held any more.
C2_Redelivery ==
    [][/\ (protocol # 0 /\ protocol' = 0) =>
              /\ nextConnectTasks = <<>>
              /\ nextConnectTasks' = PendingWork(protocol)
       /\ (protocol = 0 /\ protocol' = 0) =>
              nextConnectTasks' = nextConnectTasks
       /\ (protocol = 0 /\ protocol' # 0) =>
              /\ nextConnectTasks' = <<>>
              /\ eSubmitted[protocol'] = <<>>
              /\ Without(EngineWork(eCur'[protocol'], eQueue'[protocol']),
                         cTask[lockHolder]) = nextConnectTasks
              /\ \A t \in SeqToSet(nextConnectTasks) :
                     Count(eSubmitted'[protocol'], t) = 1]_vars

\* Two pairs were captured at a connection loss, the one in flight and one
\* queued, and are now on the next engine in that order.
C2_Witness ==
    /\ nEng = 2 /\ protocol = 2
    /\ Len(eWritten[1]) >= 1 /\ Len(eSubmitted[1]) >= 2
    /\ Len(eSubmitted[2]) >= 2
    /\ eSubmitted[2][1] = eWritten[1][Len(eWritten[1])]
    /\ eSubmitted[2][2] = eSubmitted[1][Len(eSubmitted[1])]
    /\ eSubmitted[2][1] # eSubmitted[2][2]
    /\ nextConnectTasks = <<>>

\* What _do_task recorded for a failed attempt with task t: the end of
\* the task if it waited for it, the exception of the connect otherwise.
\* A wait under a timeout that is not positive ends with TimeoutError
\* whatever becomes of the task.
AttemptError(t) ==
    CASE timeout = "nonpositive" ->
             IF \E e \in Engines : t \in SeqToSet(eSubmitted[e])
             THEN {"TimeoutError"} ELSE {"OSError", "TimeoutError"}
      [] tState[t] = "cancelled" -> {"TimeoutError"}
      [] tState[t] = "error" -> {tErr[t]}
      [] OTHER -> {"OSError", "TimeoutError"}

\* C3: _do_task makes at most retry_limit attempts, each with a task of its
\* own; it returns only with the result of its latest attempt; it raises
\* only after retry_limit attempts that all failed, and then with the error
\* of the last one.
C3_RetryLoop ==
    \A c \in {d \in Callers : cCmd[d] # "connect"} :
        LET a == cAttempts[c] IN
        /\ pc[c] # "idle" => Len(a) <= CmdRetryLimit(cCmd[c])
        /\ \A i, j \in 1..Len(a) : i # j => a[i] # a[j]
        /\ \A d \in Callers \ {c} : SeqToSet(a) \cap SeqToSet(cAttempts[d]) = {}
        /\ pc[c] # "idle" => Len(a) = cCtr[c] + (IF pc[c] = "raised" THEN 0 ELSE 1)
        /\ pc[c] = "returned" => tState[a[Len(a)]] = "result"
        /\ pc[c] = "raised" =>
               /\ Len(a) = CmdRetryLimit(cCmd[c])
               /\ \A i \in 1..Len(a) : tState[a[i]] # "result"
               /\ cLastErr[c] \in AttemptError(a[Len(a)])

\* A caller used all three attempts of get_param and raised the last error.
C3_Witness ==
    \E c \in Callers :
        /\ pc[c] = "raised"
        /\ Len(cAttempts[c]) = GetRetryLimit
        /\ tState[cAttempts[c][1]] = "cancelled"
        /\ tState[cAttempts[c][GetRetryLimit]] = "error"
        /\ cLastErr[c] = "NAK"

\* C4: the task of a retry that follows a timed-out attempt has been written
\* by the recorded engine, or waits in its queue behind a pending in-flight
\* task (or one whose _task_done is about to run) and behind no task of a
\* first attempt.
C4_RetryWritten ==
    \A c \in Callers :
        LET t == cTask[c]
            e == protocol
        IN
        (/\ pc[c] = "waiting" /\ cCtr[c] > 0 /\ cLastErr[c] = "TimeoutError"
         /\ e # 0 /\ t \in SeqToSet(eSubmitted[e]) /\ tState[t] = "pending")
        => \/ t \in SeqToSet(eWritten[e])
           \/ /\ eCur[e] # 0
              /\ tState[eCur[e]] = "pending" \/ <<e, eCur[e]>> \in sched
              /\ \A u \in Tasks :
                     Before(eQueue[e], u, t) =>
                         \E d \in Callers :
                             \E i \in 2..Len(cAttempts[d]) : cAttempts[d][i] = u

\* C5: on an engine whose update callback is registered, the line #55=200
\* invokes the callback once with (55, 200), whatever is in flight, and
\* changes nothing of the tasks, the in-flight marker or the queue.
C5_Notification ==
    \A e \in Engines :
        eUpdCb[e] =>
            LET st == ProcessLine(Bundle, e, eUpdCb[e], L_upd) IN
            /\ st.upd = Append(updates, <<55, 200>>)
            /\ st.state = tState /\ st.err = tErr /\ st.val = tVal
            /\ st.cur = eCur /\ st.queue = eQueue
            /\ st.sched = sched /\ st.regs = tRegs
            /\ st.exc = "none"

\* The notification was delivered on an engine with a pending task in flight.
C5_Witness ==
    /\ updates = <<(<<55, 200>>)>>
    /\ \E e \in Engines :
           eOpen[e] /\ eUpdCb[e] /\ eCur[e] # 0 /\ tState[eCur[e]] = "pending"

\* C6: with a task in flight, a line that is NAK in any letter case leaves
\* the task failed with the NAK error, and any other line that is not a
\* notification does to the task what the task's handle_line does.
C6_NakOrHandler ==
    \A e \in Engines :
        eCur[e] # 0 =>
            \A line \in Lines \ {L_upd} :
                LET st == ProcessLine(Bundle, e, eUpdCb[e], line) IN
                IF Upper(line) = L_NAK
                THEN st.state[eCur[e]] = "error" /\ st.err[eCur[e]] = "NAK"
                ELSE st = HandleLineBody(Bundle, eCur[e], line)

OutOfRange(param) == param # None /\ (param[1] < 1 \/ param[1] > 10000)

\* The positions of params up to and including the first parameter number
\* out of range.
UpToFirstBad(params) ==
    {i \in 1..Len(params) : \A j \in 1..(i - 1) : ~OutOfRange(params[j])}

\* C7: a subscribe or unsubscribe call given a parameter number outside
\* 1..10000 fails and hands no command to _do_task; it fails with
\* SymNetException unless the wildcard came before that number.
C7_SubscribeValidation ==
    (/\ apiCall.op \in {"subscribe", "unsubscribe"}
     /\ \E i \in 1..Len(apiCall.params) : OutOfRange(apiCall.params[i]))
    => /\ apiOutcome # "ok"
       /\ issued = <<>>
       /\ (\A i \in UpToFirstBad(apiCall.params) : apiCall.params[i] # None)
              => apiOutcome = "SymNetException"

C7_Witness ==
    /\ apiCall.op = "unsubscribe"
    /\ apiCall.params = <<Num(1), Num(10001)>>
    /\ apiOutcome = "SymNetException"
    /\ issued = <<>>

\* C8: a get_param, set_param or set_param_checked call given a parameter
\* number outside 1..10000 fails with SymNetException and hands no command
\* to _do_task.
C8_GetSetValidation ==
    (/\ apiCall.op \in {"get_param", "set_param", "set_param_checked"}
     /\ OutOfRange(apiCall.params[1]))
    => apiOutcome = "SymNetException" /\ issued = <<>>

\* The maximal runs of consecutive integers of a set.
MaximalRuns(S) ==
    {r \in S \X S :
        /\ r[1] <= r[2]
        /\ \A k \in r[1]..r[2] : k \in S
        /\ (r[1] - 1) \notin S
        /\ (r[2] + 1) \notin S}

RunText(r) ==
    IF r[1] = r[2] THEN V_PUE \o <<" ">> \o IntToChars(r[1])
    ELSE V_PUE \o <<" ">> \o IntToChars(r[1]) \o <<" ">> \o IntToChars(r[2])

\* C9: the commands of _update_subscriptions are one PUE per maximal run of
\* the key set, in ascending order, 'PUE <start> <end>' or 'PUE <start>';
\* for {3,4,5,9,10,12} they are PUE 3 5, PUE 9 10, PUE 12.
C9_Ranges ==
    apiCall.op = "_update_subscriptions" =>
        LET runs == MaximalRuns(Keys(subscriptions))
            starts == Sorted({r[1] : r \in runs})
        IN
        /\ Len(issued) = Cardinality(runs)
        /\ \A i \in 1..Len(issued) :
               issued[i].msg =
                   RunText(CHOOSE r \in runs : r[1] = starts[i])
        /\ Keys(subscriptions) = {3, 4, 5, 9, 10, 12} =>
               [i \in 1..Len(issued) |-> issued[i].msg] =
                   << <<"P", "U", "E", " ", "3", " ", "5">>,
                      <<"P", "U", "E", " ", "9", " ", "1", "0">>,
                      <<"P", "U", "E", " ", "1", "2">> >>

C9_Witness ==
    /\ apiCall.op = "_update_subscriptions"
    /\ Keys(subscriptions) = {3, 4, 5, 9, 10, 12}
    /\ Len(issued) = 3

PudText(param) == V_PUD \o <<" ">> \o IntToChars(param)

CountMsg(cmds, msg) == Cardinality({i \in 1..Len(cmds) : cmds[i].msg = msg})

\* C10: in an unsubscribe call, every parameter whose callback set became
\* empty is gone from the table and has exactly one PUD command, and every
\* other parameter has none.
C10_UnsubscribePud ==
    [][apiCall'.op = "unsubscribe" =>
          \A param \in ApiRcns :
              IF /\ param \in Keys(subscriptions)
                 /\ (param \notin Keys(subscriptions')
                        \/ subscriptions'[param] = {})
              THEN /\ param \notin Keys(subscriptions')
                   /\ CountMsg(issued', PudText(param)) = 1
              ELSE CountMsg(issued', PudText(param)) = 0]_vars

\* The callbacks publish(param, value) owes a call: those registered for
\* param and those registered under the wildcard.
Due(table, param) ==
    (IF param \in Keys(table) THEN table[param] ELSE {})
        \cup (IF Wildcard \in Keys(table) THEN table[Wildcard] ELSE {})

Invoked(log) == {log[i][1] : i \in 1..Len(log)}

\* exception, and every callback registered for the parameter or under the
\* wildcard was called in it.
C12_CallbackIsolation ==
    (/\ apiCall.op = "publish"
     /\ \E i \in 1..Len(delivered) : Raises(delivered[i][1]))
    => /\ apiOutcome = "ok"
       /\ Due(subscriptions, apiCall.params[1][1]) \subseteq Invoked(delivered)

\* The raising callback was called first and two more callbacks after it.
C12_Witness ==
    /\ apiCall.op = "publish"
    /\ apiOutcome = "ok"
    /\ Len(delivered) >= 3
    /\ Raises(delivered[1][1])
    /\ ~Raises(delivered[2][1]) /\ ~Raises(delivered[3][1])

\* C13: subscribe(None, callback) succeeds and leaves the callback under
\* the wildcard key, and unsubscribe(None, callback) succeeds and leaves
\* the callback out of the table.
C13_WildcardAccepted ==
    /\ (apiCall.op = "subscribe" /\ apiCall.params = <<None>>) =>
           /\ apiOutcome = "ok"
           /\ Wildcard \in Keys(subscriptions)
           /\ apiCall.cb \in subscriptions[Wildcard]
    /\ (apiCall.op = "unsubscribe" /\ apiCall.params = <<None>>) =>
           /\ apiOutcome = "ok"
           /\ Wildcard \in Keys(subscriptions) =>
                  apiCall.cb \notin subscriptions[Wildcard]

\* The engine as it is when _do_task makes its submission in the step that
\* begins in the current state: a new engine has been given the held work.
AtSubmission(e) ==
    IF protocol = 0 THEN Requeue(Bundle, e, nextConnectTasks) ELSE Bundle

\* C14: a task handed to queue_task_immediate is written at once if the
\* engine has no in-flight task, and otherwise becomes the head of the
\* queue, ahead of every task waiting at that moment; what an engine has
\* written and still holds stays, in the same order, whatever is added, so
\* the task is written before them; and no task handed to queue_task after
\* it is terminal before it.
C14_ImmediateHead ==
    [][\A e \in Engines :
          /\ \A t \in eImm'[e] \ eImm[e] :
                 LET pre == AtSubmission(e) IN
                 IF pre.cur[e] = 0
                 THEN /\ eCur'[e] = t
                      /\ eWritten'[e] = Append(pre.written[e], t)
                      /\ eQueue'[e] = pre.queue[e]
                 ELSE /\ eQueue'[e] = <<t>> \o pre.queue[e]
                      /\ eWritten'[e] = pre.written[e]
          /\ LET old == SeqToSet(eWritten[e] \o eQueue[e]) IN
             SelectSeq(eWritten'[e] \o eQueue'[e], LAMBDA x : x \in old)
                 = eWritten[e] \o eQueue[e]
          /\ \A t \in eImm'[e], u \in Tasks \ eImm'[e] :
                 (/\ Before(eSubmitted'[e], t, u)
                  /\ tState'[u] \in {"result", "error", "cancelled"})
                 => tState'[t] \in {"result", "error", "cancelled"}]_vars

\* A retry is in flight, written ahead of a task that was handed to
\* queue_task before it and still waits; the failed attempt and the task
\* that was in flight when the retry came are the two other tasks.
C14_Witness ==
    \E e \in Engines, t, u \in Tasks :
        /\ t \in eImm[e] /\ u \notin eImm[e]
        /\ Before(eSubmitted[e], u, t)
        /\ eCur[e] = t /\ tState[t] = "pending"
        /\ eQueue[e] = <<u>> /\ tState[u] = "pending"
        /\ Len(eWritten[e]) = 3 /\ eWritten[e][3] = t

\* C15: with a pending SymNetBasicTask in flight, the line ACK leaves the
\* task completed with a result, and another line (42) leaves it failed
\* with the unexpected-value error.
C15_BasicAck ==
    \A e \in Engines :
        LET t == eCur[e] IN
        (t # 0 /\ tKind[t] = "basic" /\ tState[t] = "pending") =>
            /\ ProcessLine(Bundle, e, eUpdCb[e], L_ACK).state[t] = "result"
            /\ LET st == ProcessLine(Bundle, e, eUpdCb[e], L_42) IN
               st.state[t] = "error" /\ st.err[t] = "Unexpected"

\* C16: with a pending SymNetValueTask in flight, the line 42 leaves the
\* task completed with the result 42, and a line that is no integer (ACK)
\* leaves it failed with the parse error.
C16_ValueInt ==
    \A e \in Engines :
        LET t == eCur[e] IN
        (t # 0 /\ tKind[t] = "value" /\ tState[t] = "pending") =>
            /\ LET st == ProcessLine(Bundle, e, eUpdCb[e], L_42) IN
               st.state[t] = "result" /\ st.val[t] = 42
            /\ LET st == ProcessLine(Bundle, e, eUpdCb[e], L_ACK) IN
               st.state[t] = "error" /\ st.err[t] = "ValueError"

\* C17: with a pending SymNetMultiStringTask in flight, a reply line other
\* than '>' is added to the lines the task has collected and leaves it
\* pending, and the line '>' completes it with the collected lines.
C17_MultiString ==
    \A e \in Engines :
        LET t == eCur[e] IN
        (t # 0 /\ tKind[t] = "multistring" /\ tState[t] = "pending") =>
            \A line \in TaskLines \ {L_NAK} :
                LET st == ProcessLine(Bundle, e, eUpdCb[e], line) IN
                IF line = L_gt
                THEN st.state[t] = "result" /\ st.val[t] = tStrs[t]
                ELSE st.state[t] = "pending"
                     /\ st.strs[t] = Append(tStrs[t], line)

\* The mapping a block task with start s owes for its lines: s + i - 1 to
\* the integer of line i, for the lines that are not -1.
BlockResult(s, lines) ==
    [k \in {s + i - 1 : i \in {j \in 1..Len(lines) : lines[j] # L_m1}} |->
        ParseInt(lines[k - s + 1]).val]

\* C18: a SymNetMultiValueTask whose handle_line has consumed integer lines
\* is pending as long as these are fewer than its count, and has its result
\* once they are as many as its count, whichever of them are -1: the
\* mapping of start + i to the i-th line for the lines that are not -1.
C18_BlockTask ==
    \A t \in Tasks :
        (/\ tKind[t] = "multivalue"
         /\ tState[t] \in {"pending", "result"}
         /\ Len(tLines[t]) <= tCount[t]
         /\ \A i \in 1..Len(tLines[t]) : ParseInt(tLines[t][i]).ok)
        => IF Len(tLines[t]) < tCount[t]
           THEN tState[t] = "pending"
           ELSE /\ tState[t] = "result"
                /\ tVal[t] = BlockResult(tStart[t], tLines[t])

\* C19: get_param_block(start, count) hands _do_task the command
\* 'GDB <start> <count>' with a task whose start and count are the
\* requested ones.
C19_BlockCall ==
    apiCall.op = "get_param_block" =>
        LET start == apiCall.params[1][1]
            count == apiCall.params[2][1]
        IN
        /\ Len(issued) = 1
        /\ issued[1].msg = V_GDB \o <<" ">> \o IntToChars(start)
                                 \o <<" ">> \o IntToChars(count)
        /\ issued[1].kind = "multivalue"
        /\ issued[1].start = start
        /\ issued[1].count = count

\* The callers inside the connection attempt of _get_connection.
Connecting == {c \in Callers : pc[c] \in {"connecting", "made"}}

\* C20: at most one caller is inside the connection attempt of
\* _get_connection, and it holds the lock while no engine is recorded; as
\* long as no transport has closed, one transport at most has been opened
\* and every caller that passed _get_connection has its task on that engine.
C20_SingleConnect ==
    /\ Cardinality(Connecting) <= 1
    /\ \A c \in Connecting : lockHolder = c /\ protocol = 0
    /\ (\A e \in 1..nEng : eOpen[e]) =>
           /\ nEng <= 1
           /\ \A c \in Callers :
                  pc[c] = "waiting" =>
                      protocol = 1 /\ cTask[c] \in SeqToSet(eSubmitted[1])

\* Two callers wait for the lock while the first has opened the transport.
C20_Witness ==
    /\ nEng = 1 /\ eOpen[1] /\ protocol = 0
    /\ lockHolder = 1 /\ pc[1] = "made"
    /\ lockWaiters = <<2, 3>>

\* C21: the gather of _update_subscriptions is over, with a result or an
\* exception, only when none of its commands is still running.
C21_GatherWaits ==
    gather.outcome \in {"returned", "raised"} =>
        \A i \in 1..Len(gather.children) : gather.children[i] # "running"

\* C22: against the dummy DSP a call whose answer the engine has processed
\* while its command was in flight has its result: set_param is complete,
\* and get_param has the value the device holds, which is the value of the
\* last set_param before it.
C22_ReadBack ==
    \A r \in dspReplied :
        /\ tState[r[1]] = "result"
        /\ tMsg[r[1]] = "GS" => tVal[r[1]] = r[2]

\* C23: the lines given to _process_line are the CR-terminated lines of all
\* the bytes received so far, however they were cut into chunks.
C23_StreamLines == dLines = DataLines(dSent)

\* C24: a disconnect that finds no engine recorded returns without
\* aborting or closing any transport; a disconnect that finds an engine
\* with an open transport returns when no engine is recorded any more, and
\* every task given to that engine that is still pending is then held for
\* redelivery.
C24_Disconnect ==
    [][(dPc # "returned" /\ dPc' = "returned") =>
           /\ dFound' = "none" =>
                  dAborted' = dAborted /\ eOpen' = eOpen /\ eClosing' = eClosing
           /\ dFound' = "open" =>
                  /\ protocol' = 0
                  /\ \A t \in SeqToSet(eSubmitted[dEng']) :
                         tState'[t] = "pending" =>
                             t \in SeqToSet(nextConnectTasks')]_vars

\* disconnect has returned from an engine that had a pending task in flight
\* and another one waiting; both are held.
C24_Witness ==
    /\ dPc = "returned" /\ dFound = "open"
    /\ protocol = 0
    /\ Len(nextConnectTasks) = 2
    /\ \A i \in 1..2 : tState[nextConnectTasks[i]] = "pending"
    /\ SeqToSet(nextConnectTasks) \subseteq SeqToSet(eSubmitted[dEng])

\* C25: once a get_version has succeeded, _version keeps that result, and a
\* get_version called from then on returns it in the same step and hands
\* no command to _do_task; a get_version that fails leaves _version as it
\* was, and a get_version called while nothing is cached asks the device.
C25_VersionCache ==
    [][/\ version # None => version' = version
       /\ \A c \in Callers :
              /\ (vPc[c] = "idle" /\ vPc'[c] # "idle" /\ version # None) =>
                     /\ vPc'[c] = "returned"
                     /\ vRet'[c] = version
                     /\ vSent' = vSent
              /\ (vPc[c] = "idle" /\ vPc'[c] # "idle" /\ version = None) =>
                     /\ vPc'[c] = "querying"
                     /\ vSent' = vSent + 1
              /\ (vPc[c] = "querying" /\ vPc'[c] = "raised") =>
                     version' = version]_vars

\* A call failed, a later one asked the device and succeeded, and a third
\* one returned the same result without asking.
C25_Witness ==
    \E a, b, c \in Callers :
        /\ vPc[a] = "raised"
        /\ vPc[b] = "returned" /\ vQueried[b]
        /\ vPc[c] = "returned" /\ ~vQueried[c]
        /\ vRet[c] = vRet[b] /\ vRet[c] # None
        /\ vSent = 2

\* C26: the line #55=-1 changes nothing: the update callback is not
\* invoked, no exception leaves _process_line, and the tasks and the engine
\* are as before.
C26_MinusOneNoOp ==
    \A e \in Engines :
        eOpen[e] => ProcessLine(Bundle, e, eUpdCb[e], L_updm1) = Bundle

\* C27: from_rcn(0) is minus infinity, from_rcn(65535) the fader maximum,
\* from_rcn(1) the fader minimum to two decimal places; to_rcn returns an
\* integer in 0..65535 for every float, 0 for minus infinity and 65535 for
\* the fader maximum.
C27_Decibel ==
    /\ cvOp = "from_rcn" =>
           /\ cvOut.ok
           /\ cvIn = 0 => cvOut.val = NegInf
           /\ cvIn = RcnFull => cvOut.val = Db(FaderMax)
           /\ cvIn = 1 =>
                  /\ cvOut.val.kind = "fin"
                  /\ Trunc(FMul(FAdd(cvOut.val, Db(0 - FaderMin)), 200)) = 0
    /\ cvOp = "to_rcn" =>
           /\ cvOut.ok
           /\ cvOut.val \in 0..RcnFull
           /\ cvIn = NegInf => cvOut.val = 0
           /\ cvIn = Db(FaderMax) => cvOut.val = RcnFull

\* C28: on every engine the in-flight task is not in the queue, and a
\* command is written only by a step that starts with no task in flight or
\* with one that is no longer pending: the step writes one command, that
\* of the task it marks in flight, and no task written before on the engine
\* is still pending.
C28_OneInFlight ==
    [][\A e \in Engines :
           /\ eCur'[e] # 0 => eCur'[e] \notin SeqToSet(eQueue'[e])
           /\ eWritten'[e] # eWritten[e] =>
                  /\ eCur'[e] # 0
                  /\ eWritten'[e] = Append(eWritten[e], eCur'[e])
                  /\ eCur[e] = 0 \/ tState[eCur[e]] # "pending"
                  /\ \A i \in 1..Len(eWritten[e]) :
                         tState'[eWritten[e][i]] # "pending"]_vars

\* A second command was written after the first one's task ended, its task
\* is pending in flight, and a third one waits in the queue.
C28_Witness ==
    \E e \in Engines :
        /\ Len(eWritten[e]) >= 2
        /\ eCur[e] = eWritten[e][Len(eWritten[e])]
        /\ tState[eCur[e]] = "pending"
        /\ eQueue[e] # <<>>

\* C29: on the recorded engine, while its transport is open, a task that
\* is marked in flight and has ended (result, error or cancellation) has
\* its _task_done still to run whenever commands wait in the queue: once
\* _task_done has run, the marker is cleared and the next command written.
C29_Drain ==
    \A e \in Engines :
        (/\ protocol = e /\ eOpen[e]
         /\ eCur[e] # 0 /\ Terminal(eCur[e])
         /\ eQueue[e] # <<>>)
        => <<e, eCur[e]>> \in sched

\* C30: a task whose command is written, and a task that is given to an
\* engine's queue (by a first attempt, a retry or the redelivery after a
\* reconnect), is pending.
C30_PendingWhenSent ==
    [][\A e \in Engines :
           /\ \A i \in (Len(eWritten[e]) + 1)..Len(eWritten'[e]) :
                  tState'[eWritten'[e][i]] = "pending"
           /\ \A i \in (Len(eSubmitted[e]) + 1)..Len(eSubmitted'[e]) :
                  tState'[eSubmitted'[e][i]] = "pending"]_vars

\* C31: no line of a received chunk reaches a task that has ended: the
\* future of a task is never set a second time (InvalidStateError), be it
\* by a later line of the chunk that ended it or by a line that arrives
\* after the caller's wait timed out.
C31_NoLateLine ==
    \A e \in Engines :
        eOpen[e] =>
            \A chunk \in Chunks \cup {<<a, b>> : a, b \in Lines} :
                ProcessLines(Bundle, e, eUpdCb[e], chunk).exc
                    # "InvalidStateError"

\* C32: when _conn_lost calls get_queue on the recorded engine, the list
\* returned is the in-flight task, if it is pending, followed by the queue
\* in its order, a terminal in-flight task is not in it, and afterwards the
\* engine has no task marked in flight.
C32_GetQueue ==
    [][(protocol # 0 /\ protocol' = 0) =>
           LET e == protocol IN
           /\ nextConnectTasks' =
                  (IF eCur[e] # 0 /\ tState[eCur[e]] = "pending"
                   THEN <<eCur[e]>> ELSE <<>>) \o eQueue[e]
           /\ eCur'[e] = 0]_vars

\* C33: a subscribe or unsubscribe call that fails the range check on one
\* of its parameters (SymNetException) leaves the subscription table as it was before the call and
\* hands no command to _do_task.
C33_AllOrNothing ==
    [][(/\ apiCall.op = "none"
        /\ apiCall'.op \in {"subscribe", "unsubscribe"}
        /\ apiOutcome' = "SymNetException")
       => /\ subscriptions' = subscriptions
          /\ issued' = <<>>]_vars

\* C34: on an engine with no task in flight, a chunk made of a line that
\* does not begin with "#" and of the update #55=200 raises nothing, leaves
\* the queue and the in-flight marker as they are, and the update is
\* processed: the callback, when registered, is invoked with (55, 200).
C34_StrayLine ==
    \A e \in Engines :
        (eOpen[e] /\ eCur[e] = 0) =>
            \A line \in {L_ACK, L_NAK, L_42} :
                LET st == ProcessLines(Bundle, e, eUpdCb[e], <<line, L_upd>>)
                IN
                /\ st.exc = "none"
                /\ st.cur = eCur /\ st.queue = eQueue
                /\ eUpdCb[e] => st.upd = Append(updates, <<55, 200>>)

\* C35: when the connect of a caller in _get_connection fails or times
\* out, no engine is recorded before or after, the work held for redelivery
\* is unchanged, and _protocol_lock is free again, or held by the same
\* caller's next attempt, which connects anew.
C35_ConnectFailure ==
    [][\A c \in Callers :
           (/\ pc[c] \in {"connecting", "made"}
            /\ cCtr'[c] # cCtr[c] \/ pc'[c] = "raised") =>
               /\ protocol = 0 /\ protocol' = 0
               /\ nextConnectTasks' = nextConnectTasks
               /\ \/ lockHolder' = 0
                  \/ lockHolder' = c /\ pc'[c] = "connecting"]_vars

\* A connect failed with OSError for an attempt that reached no engine;
\* the work held from the first engine was delivered to the second.
C35_Witness ==
    /\ nEng = 2 /\ protocol = 2 /\ nextConnectTasks = <<>>
    /\ \E c \in Callers, t, u \in Tasks :
           /\ cLastErr[c] = "OSError"
           /\ t \in SeqToSet(cAttempts[c]) /\ t # cTask[c]
           /\ \A e \in Engines : t \notin SeqToSet(eSubmitted[e])
           /\ u < t
           /\ u \in SeqToSet(eSubmitted[1]) /\ eSubmitted[2][1] = u

\* C36: when _conn_lost runs for the transport of an engine that is not
\* the recorded one, what is recorded stays recorded, and the in-flight
\* markers, the queues and the work held for redelivery are as before.
C36_OtherEngine ==
    [][\A e \in Engines :
           (e \in lostSched /\ e \notin lostSched' /\ protocol # e) =>
               /\ protocol' = protocol
               /\ nextConnectTasks' = nextConnectTasks
               /\ eCur' = eCur /\ eQueue' = eQueue]_vars

\* The second connection was lost before _get_connection recorded it and
\* its _conn_lost has run; the work held from the first engine is still
\* held.
C36_Witness ==
    /\ connEng = 2 /\ protocol = 0
    /\ ~eOpen[2] /\ 2 \notin lostSched
    /\ nextConnectTasks # <<>>
    /\ SeqToSet(nextConnectTasks) \subseteq SeqToSet(eSubmitted[1])

\* C37: a set_value(val) that ends with an error does not leave the
\* control holding val as its value with _last_set_failed false, so that
\* the same set_value again is not returned as unchanged.
C37_FailedSet ==
    [][\A i \in CtlCalls :
          (/\ ctlOp[i] = "set_value"
           /\ ctlEnd[i] = "none" /\ ctlEnd'[i] = "raised")
          => ~(currValue' = ctlVal[i] /\ ~lastSetFailed')]_vars

====
